---- MODULE Spec2Model ----
(***************************************************************************)
(* A model of the multi-threaded try-on runner, alphabake-api-multi.py:    *)
(* main() splits the work list into chunks, one worker thread per chunk    *)
(* drives every folder of its chunk through process_folder (submit, poll,  *)
(* save, record), and the records are appended to results_summary and      *)
(* written to results.json under results_lock.                             *)
(*                                                                         *)
(* A thread's position is pc[t]; the locals of its running process_folder  *)
(* call are frame[t].  Every blocking point of the code (a network call, a *)
(* sleep, a lock acquisition) is a position of its own.  Wall-clock time   *)
(* is counted as the time slept: frame[t].elapsed is the sum of the sleeps *)
(* taken so far, network latency counting as zero.                         *)
(***************************************************************************)
EXTENDS Integers, Sequences, FiniteSets, TLC

VARIABLES
    input_json,       \* folder -> which keys the entry holds
    folders,          \* main: list(input_json.keys())
    n_threads,        \* main: n_threads
    wait_times,       \* process_folder: wait_times, the poll schedule in use
    folder_chunks,    \* main: folder_chunks, thread index -> list of folders
    mainpc,           \* main's position
    lock,             \* main: lock (the progress lock), its holder
    results_lock,     \* results_lock, its holder
    results,          \* main: results, thread index -> [done, fail]
    results_summary,  \* results_summary: [requests, average_duration]
    results_json,     \* the content of the file results_json_path
    pc,               \* thread index -> position of the worker thread
    chunk_idx,        \* thread index -> folders of its chunk already left
    frame,            \* thread index -> locals of its process_folder call
    handled,          \* folder -> the threads that called process_folder on it
    history,          \* folder -> what its process_folder call has done so far
    persisted,        \* number of completed append-and-write sections of workers
    img1, img2, img3, \* stack_three_images_and_save: the three images given
    new_img,          \* stack_three_images_and_save: new_img
    download,         \* download_image: response, the file at download_path,
                      \* and how the call ended
    key_index,        \* generate_and_upload_banners.py: _key_index
    key_lock,         \* generate_and_upload_banners.py: _key_lock, its holder
    key_log,          \* the reads of _key_index so far, in the order made
    gen,              \* thread -> locals of its generate_image call
    dalle,            \* dalle_runner.py: main's loop and its gen_one call
    level4,           \* generate_level4_banners.py: main's two phases
    rerun,            \* the generation phase of a banner script, run twice
    promo,            \* generate_promo_banners.py: main's upload phase
    single            \* alphabake-api-single.py: the module's run

\* What Init fixes for the whole run.
config == <<input_json, folders, n_threads, wait_times>>

\* The images of a call of stack_three_images_and_save.
images == <<img1, img2, img3, new_img>>

\* The key rotation of the banner generators and the calls that use it.
rotation == <<key_index, key_lock, key_log, gen>>

\* The runs of main() of the banner scripts and of the single-item runner.
pipelines == <<level4, rerun, promo, single>>

\* The image generation scripts of src/scripts.
scripts == <<rotation, dalle, pipelines>>

\* What the runner of main() leaves alone: the calls followed on their own.
aux == <<images, download, scripts>>

\* What a run of main() changes.
runner == <<folder_chunks, mainpc, lock, results_lock, results,
            results_summary, results_json, pc, chunk_idx, frame, handled,
            history, persisted>>

vars == <<config, aux, runner>>

(* ------------------------------ bounds -------------------------------- *)

\* Worker threads of the modelled run (the source sets NUM_THREADS = 5).
NUM_THREADS == 2

\* Entries of input_json in the modelled run.
NumFolders == 3

\* Entries of the poll schedule a worker of the concurrent run goes through.
MaxPolls == 1

\* Entries of input_json in the run of a single worker.
ItemFolders == 1

\* Largest list length and thread count the chunking is applied to.
MaxItems == 9
MaxThreads == 6

\* Largest width and height of an image given to the compositor.
MaxWidth == 3
MaxHeight == 3

\* Largest number of bytes of a response body or of a file.
MaxBodyLen == 2

\* Largest number of records in the manifest that the final flush is
\* applied to.
MaxRecords == 3

(* ----------------------------- constants ------------------------------ *)

\* Line 172: the poll schedule of the source.
WAIT_TIMES == <<10, 5, 10, 5, 10, 20, 30, 30, 60>>

None == "None"

\* The None of average_duration, among the quotients num/den.
NoAverage == [num |-> 0, den |-> 0]
Free == -1
MainThread == -2

Threads == 0 .. (n_threads - 1)

\* An entry of input_json gives each input by identifier or by URL: the
\* entry of lines 48-53 (two URLs), the one of lines 42-46 (two identifiers),
\* and the two mixed ones that lines 110-119 allow.
UrlEntry == [has_human_id |-> FALSE, has_garment_id |-> FALSE]
IdEntry == [has_human_id |-> TRUE, has_garment_id |-> TRUE]
ItemShapes == [has_human_id : BOOLEAN, has_garment_id : BOOLEAN]

\* The positions of a thread that an uncaught exception ended: the one of
\* requests.post at line 179, the one of status_response.json() or of
\* status_json['message'], status_json['status'] at lines 184-192, the
\* KeyError of lines 251-252.
Died == {"died_poll", "died_body", "died_record"}

SubmitResponses == {"non200", "raise", "ok", "ok_no_id"}
StatusResponses == {"raise", "non200", "rejected", "rejected_done",
                    "done", "processing", "unrecognized", "malformed"}

\* The 200 responses with message 'success' and a status other than 'done'.
NonTerminal == {"processing", "unrecognized"}
SaveOutcomes == {"saved", "raise"}

(* ------------------------------ helpers ------------------------------- *)

RECURSIVE SumSeq(_)
SumSeq(s) == IF s = <<>> THEN 0 ELSE Head(s) + SumSeq(Tail(s))

\* Python's s[i::k] for 0 <= i, 1 <= k: the elements at indices i, i+k, ...
SliceLen(n, i, k) == IF i >= n THEN 0 ELSE (n - i + k - 1) \div k

\* A split into consecutive runs of ceil(n / k) elements.
SliceContiguous(s, i, k) ==
    LET size == (Len(s) + k - 1) \div k
        lo == i * size
        hi == IF (i + 1) * size < Len(s) THEN (i + 1) * size ELSE Len(s)
    IN [j \in 1 .. (IF hi > lo THEN hi - lo ELSE 0) |-> s[lo + j]]

Slice(s, i, k) == [j \in 1 .. SliceLen(Len(s), i, k) |-> s[i + (j - 1) * k + 1]]

\* The state of process_folder's locals at lines 102-121, and with them
\* what its save step did: whether every download_image call of lines 197,
\* 204, 210 got a 200 response (downloads) and whether line 214 was reached
\* (composed).
NewFrame(folder) ==
    [folder_name |-> folder,
     status      |-> "fail",
     note        |-> "",
     tryon_id    |-> None,
     garment_id  |-> IF input_json[folder].has_garment_id THEN "garment_id_in" ELSE None,
     human_id    |-> IF input_json[folder].has_human_id THEN "human_id_in" ELSE None,
     k           |-> 0,
     poll_count  |-> 0,
     elapsed     |-> 0,
     status_json |-> None,
     early       |-> FALSE,
     downloads   |-> None,
     composed    |-> FALSE]

\* No call of process_folder is running.
NoFrame ==
    [folder_name |-> 0, status |-> "fail", note |-> "", tryon_id |-> None,
     garment_id |-> None, human_id |-> None, k |-> 0, poll_count |-> 0,
     elapsed |-> 0, status_json |-> None, early |-> FALSE,
     downloads |-> None, composed |-> FALSE]

\* data.get('garment_url', '') / data.get('human_url', ''): the key is in data
\* only when the entry gave no identifier (lines 110-119).
DataGetGarmentUrl(folder) == IF input_json[folder].has_garment_id THEN "" ELSE "garment_url?v"
DataGetHumanUrl(folder) == IF input_json[folder].has_human_id THEN "" ELSE "human_url?v"

\* The record of every path built with data['garment_url'], data['human_url'].
RecordRaisesKeyErrorOnEveryPath(f) ==
    \/ input_json[f.folder_name].has_garment_id
    \/ input_json[f.folder_name].has_human_id

\* data['garment_url'] and data['human_url'] (lines 251-252) raise KeyError
\* when the key is not in data; lines 140-141 and 164-165, on the paths that
\* return early, use data.get and raise nothing.
RecordRaisesKeyError(f) ==
    /\ ~ f.early
    /\ \/ input_json[f.folder_name].has_garment_id
       \/ input_json[f.folder_name].has_human_id

RecordOf(f) ==
    [folder      |-> f.folder_name,
     status      |-> f.status,
     duration    |-> f.elapsed,
     note        |-> f.note,
     tryon_id    |-> f.tryon_id,
     garment_url |-> DataGetGarmentUrl(f.folder_name),
     human_url   |-> DataGetHumanUrl(f.folder_name),
     garment_id  |-> f.garment_id,
     human_id    |-> f.human_id]

\* open(results_json_path, 'w') truncates the file; json.dump and the close
\* of the with block leave the whole of results_summary in it.
Truncated == [state |-> "truncated", requests |-> <<>>, average_duration |-> NoAverage]
Written(summary) == [state |-> "written", requests |-> summary.requests,
                     average_duration |-> summary.average_duration]

\* A lock that is never found taken.
LockNeverTaken == TRUE

\* "with results_lock:" is entered only while no thread holds the lock.
ResultsLockFree == results_lock = Free
ProgressLockFree == lock = Free

\* The durations of all the records, whatever their status.
AllDurations(requests) == [i \in 1 .. Len(requests) |-> requests[i].duration]

\* sum(durations)/len(durations) if durations else None, kept as the exact
\* quotient num/den.
SuccessDurations(requests) ==
    LET idx == {i \in 1 .. Len(requests) : requests[i].status = "success"}
        RECURSIVE Pick(_, _)
        Pick(i, acc) == IF i > Len(requests) THEN acc
                        ELSE Pick(i + 1, IF i \in idx
                                         THEN Append(acc, requests[i].duration)
                                         ELSE acc)
    IN Pick(1, <<>>)

AverageDuration(requests) ==
    LET durations == SuccessDurations(requests)
    IN IF durations = <<>> THEN NoAverage
       ELSE [num |-> SumSeq(durations), den |-> Len(durations)]

(* ----------------------------- compositor ----------------------------- *)

\* No image: outside a call of stack_three_images_and_save.
NoImage == [width |-> 0, height |-> 0, px |-> <<>>]

Black == <<0, 0, 0>>

Pixels(w, h) == (0 .. (w - 1)) \X (0 .. (h - 1))

\* The k-th argument, w wide and h high, in the mode of the canvas; each of
\* its pixels has a colour of its own.
SourceImage(k, w, h) ==
    [width |-> w, height |-> h, px |-> [p \in Pixels(w, h) |-> <<k, p[1], p[2]>>]]

Max3(a, b, c) ==
    IF a >= b /\ a >= c THEN a ELSE IF b >= c THEN b ELSE c

\* Image.new('RGB', (w, h)): a black canvas.
ImageNew(w, h) == [width |-> w, height |-> h, px |-> [p \in Pixels(w, h) |-> Black]]

\* Image.paste(img, (x0, y0)): the pixels of img over those of the canvas
\* from (x0, y0) on, cut at the edges of the canvas.
Paste(canvas, img, x0, y0) ==
    [canvas EXCEPT !.px =
        [p \in Pixels(canvas.width, canvas.height) |->
            IF /\ p[1] - x0 \in 0 .. (img.width - 1)
               /\ p[2] - y0 \in 0 .. (img.height - 1)
            THEN img.px[<<p[1] - x0, p[2] - y0>>]
            ELSE canvas.px[p]]]

\* The third image pasted at the offset of the second.
StackThreeOverlapping(a, b, c) ==
    LET h == Max3(a.height, b.height, c.height)
        w == a.width + b.width + c.width
    IN Paste(Paste(Paste(ImageNew(w, h), a, 0, 0), b, a.width, 0), c, a.width, 0)

\* Lines 85-90: new_img after the three pastes.
StackThree(a, b, c) ==
    LET h == Max3(a.height, b.height, c.height)
        w == a.width + b.width + c.width
    IN Paste(Paste(Paste(ImageNew(w, h), a, 0, 0), b, a.width, 0),
             c, a.width + b.width, 0)

(* ---------------------------- download_image -------------------------- *)

Bodies == UNION {[1 .. k -> {0, 1}] : k \in 0 .. MaxBodyLen}

\* The file at download_path: absent, or there with some content.
NoFile == [exists |-> FALSE, content |-> <<>>]
FileOf(body) == [exists |-> TRUE, content |-> body]
Files == {NoFile} \cup {FileOf(b) : b \in Bodies}

\* What requests.get(url) does: it returns a response with a status code and
\* a body, or it raises (no connection, no name resolution, ...).
DownloadResponses ==
    [kind : {"response"}, status_code : {200}, content : Bodies]
        \cup [kind : {"response"}, status_code : {404, 500}, content : {<<>>}]
        \cup [kind : {"raise"}, status_code : {0}, content : {<<>>}]

NoDownload == [state |-> "idle", response |-> [kind |-> "none"],
               before |-> NoFile, file |-> NoFile, ret |-> None]

\* Lines 71-80: requests.get is in no try, so what it raises leaves
\* download_image; a 200 response is written to download_path and True
\* returned; any other response leaves the file alone and returns None.
DownloadImage(response, file) ==
    IF response.kind = "raise"
    THEN [state |-> "raised", file |-> file, ret |-> None]
    ELSE IF response.status_code = 200
         THEN [state |-> "returned", file |-> FileOf(response.content), ret |-> "True"]
         ELSE [state |-> "returned", file |-> file, ret |-> None]

(* ------------------------------ save step ----------------------------- *)

\* What lines 193-214 meet: the responses to the downloads of the try-on
\* result, of the garment and of the human image; whether an earlier run left
\* its files at tryon_out, garment_out and human_out; and whether Image.open
\* and the composition succeed on the files they find.
Ok200 == [kind |-> "response", status_code |-> 200, content |-> <<1>>]
SaveResponses == {Ok200,
                  [kind |-> "response", status_code |-> 404, content |-> <<>>],
                  [kind |-> "raise", status_code |-> 0, content |-> <<>>]}
SaveInputs == [tryon : SaveResponses, garment : SaveResponses,
               human : SaveResponses, earlier_run : BOOLEAN, readable : BOOLEAN]

\* Lines 193-214 on an entry of the given shape: download_image on the
\* result, on the garment if the entry has a garment_url, on the human if it
\* has a human_url, each leaving the step if it raises; then Image.open on
\* the three paths, which raises when a file is not there.
SaveStep(entry, r) ==
    LET before == IF r.earlier_run THEN FileOf(<<0>>) ELSE NoFile
        d1 == DownloadImage(r.tryon, before)
        get2 == ~ entry.has_garment_id
        d2 == IF get2 THEN DownloadImage(r.garment, before)
              ELSE [state |-> "returned", file |-> before, ret |-> None]
        get3 == ~ entry.has_human_id
        d3 == IF get3 THEN DownloadImage(r.human, before)
              ELSE [state |-> "returned", file |-> before, ret |-> None]
        reached == /\ d1.state = "returned"
                   /\ d2.state = "returned"
                   /\ d3.state = "returned"
        opened == /\ d1.file.exists /\ d2.file.exists /\ d3.file.exists
                  /\ r.readable
    IN [outcome   |-> IF reached /\ opened THEN "saved" ELSE "raise",
        downloads |-> IF /\ r.tryon = Ok200
                         /\ get2 => r.garment = Ok200
                         /\ get3 => r.human = Ok200
                      THEN "ok" ELSE "failed",
        composed  |-> reached]

\* What the save step can come to on an entry, over all it can meet.
SaveResults(entry) == {SaveStep(entry, r) : r \in SaveInputs}

(* ------------------------------- Init --------------------------------- *)

NoHistory == [submits |-> 0, submit_failed |-> FALSE, queries |-> 0,
              exhausted |-> FALSE, ended_by |-> None, late_queries |-> 0,
              saves |-> 0, save_raised |-> FALSE]

InitCommon ==
    /\ folder_chunks = <<>>
    /\ mainpc = "split"
    /\ lock = Free
    /\ results_lock = Free
    /\ results = <<>>
    /\ results_summary = [requests |-> <<>>, average_duration |-> NoAverage]
    /\ results_json = [state |-> "absent", requests |-> <<>>, average_duration |-> NoAverage]
    /\ pc = <<>>
    /\ chunk_idx = <<>>
    /\ frame = <<>>
    /\ handled = [f \in DOMAIN input_json |-> {}]
    /\ history = [f \in DOMAIN input_json |-> NoHistory]
    /\ persisted = 0

\* main() is not run.
InitNoRun ==
    /\ folders = <<>>
    /\ input_json = <<>>
    /\ n_threads = 1
    /\ wait_times = WAIT_TIMES
    /\ InitCommon

\* No call of the compositor is followed.
InitNoImages ==
    /\ img1 = NoImage
    /\ img2 = NoImage
    /\ img3 = NoImage
    /\ new_img = NoImage

InitNoDownload == download = NoDownload

(* ----------------------- src/scripts: constants ----------------------- *)

\* generate_and_upload_banners.py lines 39-43: the three keys, by position.
API_KEYS == <<"key0", "key1", "key2">>

\* generate_image's default for retries.
retries == 3

\* Threads of the executor that run generate_image in the modelled run.
NumGenThreads == 2

GenThreads == 0 .. NumGenThreads - 1

\* Line 54: API_KEYS[_key_index % len(API_KEYS)], Python lists counting from 0.
KeyAt(index) == API_KEYS[(index % Len(API_KEYS)) + 1]

\* What one generate_content call can come to: a response with an image part
\* that is decoded and saved, one with an image part that Image.open,
\* convert or save raises on, one without an image part, or an exception
\* whose text names a quota error or does not.
GenResponses == {"image", "image_unsaved", "no_image", "raise_429", "raise"}

\* The locals of a generate_image call that has not begun its loop.
NewGen == [pc |-> "for", attempt |-> 0, key |-> None, ret |-> None,
           calls |-> 0, image_parts |-> 0, last |-> None]

\* No thread runs generate_image.
NoGen == [pc |-> "returned", attempt |-> 0, key |-> None, ret |-> None,
          calls |-> 0, image_parts |-> 0, last |-> None]

InitNoRotation ==
    /\ key_index = 0
    /\ key_lock = Free
    /\ key_log = <<>>
    /\ gen = [g \in GenThreads |-> NoGen]

\* Items of the batch of dalle_runner.main in the modelled run.
MaxBatch == 2

\* dalle_runner.py line 29: out_path is missing, holds at most 10000 bytes,
\* or holds more.
OutFiles == {"absent", "small", "big"}

\* No response: the call itself raised (a connection error, a timeout).
NoResponse == [raised |-> TRUE, status_code |-> 0, body |-> "none"]

\* dalle_runner.py lines 35-41: what the generation call can come to.
PostResponses ==
    {NoResponse,
     [raised |-> FALSE, status_code |-> 200, body |-> "url"],
     [raised |-> FALSE, status_code |-> 200, body |-> "no_url"],
     [raised |-> FALSE, status_code |-> 429, body |-> "error"],
     [raised |-> FALSE, status_code |-> 500, body |-> "error"]}

\* dalle_runner.py lines 42-44: what the fetch of the image can come to, the
\* body of a 200 named by the size of the file written from it.
GetResponses ==
    {NoResponse,
     [raised |-> FALSE, status_code |-> 200, body |-> "small"],
     [raised |-> FALSE, status_code |-> 200, body |-> "big"],
     [raised |-> FALSE, status_code |-> 404, body |-> "error"]}

\* Lines 40 and 43: raise_for_status raises HTTPError on a 4xx or 5xx.
RaisesForStatus(response) ==
    response.status_code >= 400 /\ response.status_code < 600

\* Line 49, "if e.response": the truth value of a requests Response is its
\* ok, that is, whether raise_for_status would return.
ResponseBool(response) == ~RaisesForStatus(response)

\* Line 49: code = e.response.status_code if e.response else "?".
CodeOf(response) ==
    IF ResponseBool(response)
    THEN [text |-> "status_code", value |-> response.status_code]
    ELSE [text |-> "?", value |-> 0]

\* Line 54: code == 429.
IsRateLimited(code) == code.text = "status_code" /\ code.value = 429

\* dalle_runner.main is not run.
NoDalle == [pc |-> "done", n |-> 0, i |-> 0, file |-> <<>>,
            response |-> NoResponse, posts |-> <<>>, slept |-> 0,
            returned |-> {}, path |-> <<>>, generated |-> {}]

InitNoDalle == dalle = NoDalle

\* Tasks built by generate_level4_banners.main in the modelled run.
Level4Tasks == 2

\* Threads of each executor in the modelled run (the source sets
\* max_workers=3 for generation and max_workers=5 for upload).
PoolWorkers == 2

Workers == 1 .. PoolWorkers

\* A pool thread that runs no task.
IdleWorker == [pc |-> "idle", task |-> 0, loaded |-> 0, result |-> None]

\* generate_level4_banners.main is not run.
NoLevel4 == [phase |-> "done", exists |-> <<>>, queue |-> <<>>,
             worker |-> [w \in Workers |-> IdleWorker],
             futures |-> <<>>, completed_count |-> 0, upload_count |-> 0,
             generated |-> <<>>, results |-> <<>>]

InitNoLevel4 == level4 = NoLevel4

\* Tasks of the generation phase in the modelled run.
RerunTasks == 2

\* The scripts whose generation phase is followed: generate_task of
\* generate_and_upload_banners.py, main of generate_promo_banners.py and
\* gen_one of gemini_runner.py.
Scripts == {"generate_and_upload_banners", "generate_promo_banners",
            "gemini_runner"}

\* An output file: missing, of at most 10000 bytes, or larger; version counts
\* the times it was written.
OutFile(size) == [size |-> size, version |-> 0]

\* Nothing is ever skipped.
SkipsNothing(script, file) == FALSE

\* generate_and_upload_banners.py line 250 and generate_promo_banners.py
\* line 317: save_path.exists(); gemini_runner.py line 59: out_path.exists()
\* and out_path.stat().st_size > 10000.
Skips(script, file) ==
    IF script = "gemini_runner"
    THEN file.size = "big"
    ELSE file.size /= "absent"

\* No generation phase is run.
NoRerun == [pc |-> "done", script |-> "generate_and_upload_banners",
            run |-> 0, i |-> 0, file |-> <<>>, after_first |-> <<>>,
            calls |-> <<0, 0>>, generated |-> <<{}, {}>>,
            called_on_existing |-> FALSE]

InitNoRerun == rerun = NoRerun

\* Entries of PROMO_THEMES in the modelled run (the source lists 12).
PromoThemes == 3

Themes == 1 .. PromoThemes

\* The scripts with this upload phase; regenerate_promo_banners.py sorts the
\* results before saving them.
PromoScripts == {"generate_promo_banners", "regenerate_promo_banners"}

\* generate_promo_banners.py lines 280-298: what upload_to_cloudinary comes
\* to: the upload answered with both fields, answered without one of them
\* (a KeyError, caught), or raising (caught).
UploadOutcomes == {"ok", "field_missing", "raise"}

\* Lines 292-298: the value upload_to_cloudinary returns.
UploadResult(outcome) == IF outcome = "ok" THEN "result" ELSE None

\* Every value counts as a result.
EverythingIsTruthy(upload_result) == TRUE

\* Line 366: if upload_result.
Truthy(upload_result) == upload_result /= None

\* Lines 343-352: the themes whose file exists, in the order of PROMO_THEMES.
RECURSIVE UploadTasks(_, _)
UploadTasks(exists, from) ==
    IF from > Len(exists) THEN <<>>
    ELSE IF exists[from] THEN <<from>> \o UploadTasks(exists, from + 1)
    ELSE UploadTasks(exists, from + 1)

\* s with x put before the first element greater than x.
RECURSIVE Insert(_, _)
Insert(s, x) ==
    IF s = <<>> THEN <<x>>
    ELSE IF x < Head(s) THEN <<x>> \o s
    ELSE <<Head(s)>> \o Insert(Tail(s), x)

\* regenerate_promo_banners.py lines 493-494: results.sort by the position of
\* the theme in PROMO_THEMES, a stable sort.
RECURSIVE SortByOrder(_)
SortByOrder(s) ==
    IF s = <<>> THEN <<>>
    ELSE Insert(SortByOrder(SubSeq(s, 1, Len(s) - 1)), s[Len(s)])

\* generate_promo_banners.main is not run.
NoPromo == [pc |-> "done", script |-> "generate_promo_banners",
            exists |-> <<>>, queue |-> <<>>,
            worker |-> [w \in Workers |-> IdleWorker],
            futures |-> <<>>, returned |-> {}, results |-> <<>>,
            saved |-> <<>>]

InitNoPromo == promo = NoPromo

\* alphabake-api-single.py line 79: time.sleep(2) after a non-terminal poll.
PollSleep == 2

\* Line 82: the polling gives up once time_elapsed > 120.
PollLimit == 120

\* Seconds the creation call of line 49 can take in the modelled run.
CreateLatencies == {0, 1, 121}

\* alphabake-api-single.py is not run.
NoSingle == [pc |-> "done", created |-> None, now |-> 0,
             time_elapsed |-> 0, found |-> FALSE, queries |-> 0,
             events |-> 0, downloads |-> 0, last |-> None,
             file |-> NoFile]

InitNoSingle == single = NoSingle

InitNoPipelines ==
    InitNoLevel4 /\ InitNoRerun /\ InitNoPromo /\ InitNoSingle

InitNoScripts == InitNoRotation /\ InitNoDalle /\ InitNoPipelines

\* The runner of main() is followed, and no other call on its own.
InitRunnerOnly == InitNoImages /\ InitNoDownload /\ InitNoScripts

\* The concurrent run: NUM_THREADS workers over NumFolders entries, each given
\* by URLs or by identifiers, each worker going through the first MaxPolls
\* entries of the schedule.
Init ==
    /\ folders = [i \in 1 .. NumFolders |-> i]
    /\ input_json \in [1 .. NumFolders -> {UrlEntry, IdEntry}]
    /\ n_threads = NUM_THREADS
    /\ wait_times = SubSeq(WAIT_TIMES, 1, MaxPolls)
    /\ InitCommon
    /\ InitRunnerOnly

\* The run of a single worker, with the whole schedule of the source.
InitItem ==
    /\ folders = [i \in 1 .. ItemFolders |-> i]
    /\ input_json \in [1 .. ItemFolders -> ItemShapes]
    /\ n_threads = 1
    /\ wait_times = WAIT_TIMES
    /\ InitCommon
    /\ InitRunnerOnly

\* The chunking of main() alone, for every list length and thread count.
InitChunks ==
    /\ \E n \in 0 .. MaxItems :
          /\ folders = [i \in 1 .. n |-> i]
          /\ input_json = [i \in 1 .. n |-> UrlEntry]
    /\ n_threads \in 1 .. MaxThreads
    /\ wait_times = WAIT_TIMES
    /\ InitCommon
    /\ InitRunnerOnly

\* The durations the records of the final flush are given: time.time()
\* differences, any non-negative number.
SampleDurations == {0, 10, 25, 180}

\* The final flush of main() alone, after the joins, on every manifest of up
\* to MaxRecords records of every status and duration.
InitFlush ==
    /\ \E n \in 0 .. MaxRecords :
          /\ folders = [i \in 1 .. n |-> i]
          /\ input_json = [i \in 1 .. n |-> UrlEntry]
          /\ \E st \in [1 .. n -> {"success", "fail", "timeout"}] :
             \E du \in [1 .. n -> SampleDurations] :
                results_summary =
                    [requests |-> [i \in 1 .. n |->
                         [RecordOf(NewFrame(i)) EXCEPT !.status = st[i],
                                                       !.duration = du[i]]],
                     average_duration |-> NoAverage]
          /\ handled = [f \in 1 .. n |-> {0}]
          /\ history = [f \in 1 .. n |-> NoHistory]
          /\ chunk_idx = [i \in 0 .. 0 |-> n]
          /\ persisted = n
    /\ n_threads = 1
    /\ wait_times = WAIT_TIMES
    /\ folder_chunks = [i \in 0 .. 0 |-> folders]
    /\ mainpc = "flush"
    /\ lock = Free
    /\ results_lock = Free
    /\ results = [i \in 0 .. 0 |-> [done |-> 0, fail |-> 0]]
    /\ results_json = Written(results_summary)
    /\ pc = [i \in 0 .. 0 |-> "ended"]
    /\ frame = [i \in 0 .. 0 |-> NoFrame]
    /\ InitRunnerOnly

\* A call of stack_three_images_and_save alone, on three images of every
\* width and height.
InitStack ==
    /\ \E w1, w2, w3 \in 1 .. MaxWidth : \E h1, h2, h3 \in 1 .. MaxHeight :
          /\ img1 = SourceImage(1, w1, h1)
          /\ img2 = SourceImage(2, w2, h2)
          /\ img3 = SourceImage(3, w3, h3)
    /\ new_img = NoImage
    /\ InitNoDownload
    /\ InitNoScripts
    /\ InitNoRun

\* A call of download_image alone, on every response and every file at
\* download_path.
InitDownload ==
    /\ \E r \in DownloadResponses : \E f \in Files :
          download = [state |-> "called", response |-> r, before |-> f,
                      file |-> f, ret |-> None]
    /\ InitNoImages
    /\ InitNoScripts
    /\ InitNoRun

(* ------------------------------- main --------------------------------- *)

\* Lines 261-271: the chunks, the per-thread counters and the progress lock.
MainSplit ==
    /\ mainpc = "split"
    /\ folder_chunks' = [i \in Threads |-> Slice(folders, i, n_threads)]
    /\ results' = [i \in Threads |-> [done |-> 0, fail |-> 0]]
    /\ pc' = [i \in Threads |-> "unstarted"]
    /\ chunk_idx' = [i \in Threads |-> 0]
    /\ frame' = [i \in Threads |-> NoFrame]
    /\ mainpc' = "spawn"
    /\ UNCHANGED <<config, aux, lock, results_lock, results_summary, results_json,
                   handled, history, persisted>>

\* Lines 279-283: every thread is started.
MainSpawn ==
    /\ mainpc = "spawn"
    /\ pc' = [i \in Threads |-> "worker"]
    /\ mainpc' = "join"
    /\ UNCHANGED <<config, aux, folder_chunks, lock, results_lock, results,
                   results_summary, results_json, chunk_idx, frame, handled,
                   history, persisted>>

\* A main() that goes on to the final flush without joining.
MainJoinWithoutWaiting ==
    /\ mainpc = "join"
    /\ mainpc' = "flush"
    /\ UNCHANGED <<config, aux, folder_chunks, lock, results_lock, results,
                   results_summary, results_json, pc, chunk_idx, frame,
                   handled, history, persisted>>

\* Lines 284-285: join returns for a thread that returned and for a thread
\* that an exception ended.
MainJoin ==
    /\ mainpc = "join"
    /\ \A t \in Threads : pc[t] \in {"ended"} \cup Died
    /\ mainpc' = "flush"
    /\ UNCHANGED <<config, aux, folder_chunks, lock, results_lock, results,
                   results_summary, results_json, pc, chunk_idx, frame,
                   handled, history, persisted>>

\* Lines 292-294: under results_lock, the average over the successes.
MainFlush ==
    /\ mainpc = "flush"
    /\ ResultsLockFree
    /\ results_lock' = MainThread
    /\ results_summary' = [results_summary EXCEPT
           !.average_duration = AverageDuration(results_summary.requests)]
    /\ mainpc' = "open"
    /\ UNCHANGED <<config, aux, folder_chunks, lock, results, results_json, pc,
                   chunk_idx, frame, handled, history, persisted>>

\* Line 295: open(results_json_path, 'w').
MainOpen ==
    /\ mainpc = "open"
    /\ results_json' = Truncated
    /\ mainpc' = "dump"
    /\ UNCHANGED <<config, aux, folder_chunks, lock, results_lock, results,
                   results_summary, pc, chunk_idx, frame, handled, history,
                   persisted>>

\* Line 296 and the end of the with blocks.
MainDump ==
    /\ mainpc = "dump"
    /\ results_json' = Written(results_summary)
    /\ results_lock' = Free
    /\ mainpc' = "done"
    /\ UNCHANGED <<config, aux, folder_chunks, lock, results, results_summary, pc,
                   chunk_idx, frame, handled, history, persisted>>

(* ------------------------------ worker -------------------------------- *)

\* A worker that goes through its chunk from the last folder to the first.
workerFromTheEnd(t) ==
    /\ pc[t] = "worker"
    /\ IF chunk_idx[t] < Len(folder_chunks[t])
       THEN LET folder == folder_chunks[t][Len(folder_chunks[t]) - chunk_idx[t]] IN
            /\ frame' = [frame EXCEPT ![t] = NewFrame(folder)]
            /\ handled' = [handled EXCEPT ![folder] = @ \cup {t}]
            /\ pc' = [pc EXCEPT ![t] = "submit"]
       ELSE /\ pc' = [pc EXCEPT ![t] = "ended"]
            /\ UNCHANGED <<frame, handled>>
    /\ UNCHANGED <<config, aux, folder_chunks, mainpc, lock, results_lock, results,
                   results_summary, results_json, chunk_idx, history,
                   persisted>>

\* Lines 274-275: the next folder of the chunk and the call of
\* process_folder on it (lines 102-121), or the end of the thread.
worker(t) ==
    /\ pc[t] = "worker"
    /\ IF chunk_idx[t] < Len(folder_chunks[t])
       THEN LET folder == folder_chunks[t][chunk_idx[t] + 1] IN
            /\ frame' = [frame EXCEPT ![t] = NewFrame(folder)]
            /\ handled' = [handled EXCEPT ![folder] = @ \cup {t}]
            /\ pc' = [pc EXCEPT ![t] = "submit"]
       ELSE /\ pc' = [pc EXCEPT ![t] = "ended"]
            /\ UNCHANGED <<frame, handled>>
    /\ UNCHANGED <<config, aux, folder_chunks, mainpc, lock, results_lock, results,
                   results_summary, results_json, chunk_idx, history,
                   persisted>>

\* Lines 122-125, 148-151: requests.post(url, ...) and what follows it up to
\* the next lock: a response other than 200, an exception of the call or of
\* response.json(), or a body whose 'tryon_id' (None when absent) is kept.
Submit(t, r) ==
    /\ pc[t] = "submit"
    /\ CASE r = "non200" ->
              /\ frame' = [frame EXCEPT ![t].note = "ERROR resp 403",
                                        ![t].early = TRUE]
              /\ pc' = [pc EXCEPT ![t] = "lock_fail"]
         [] r = "raise" ->
              /\ frame' = [frame EXCEPT ![t].note = "Exception: error",
                                        ![t].early = TRUE]
              /\ pc' = [pc EXCEPT ![t] = "lock_fail"]
         [] r = "ok" ->
              /\ frame' = [frame EXCEPT ![t].tryon_id = "tryon_id", ![t].k = 1]
              /\ pc' = [pc EXCEPT ![t] = "poll"]
         [] r = "ok_no_id" ->
              /\ frame' = [frame EXCEPT ![t].tryon_id = None, ![t].k = 1]
              /\ pc' = [pc EXCEPT ![t] = "poll"]
    /\ history' = [history EXCEPT
           ![frame[t].folder_name].submits = @ + 1,
           ![frame[t].folder_name].submit_failed = (r \in {"non200", "raise"})]
    /\ UNCHANGED <<config, aux, folder_chunks, mainpc, lock, results_lock, results,
                   results_summary, results_json, chunk_idx, handled,
                   persisted>>

\* Lines 176-179: the sleep of the schedule and the status query after it.
\* An exception of requests.post is caught nowhere: it ends the thread.
Poll(t, r) ==
    /\ pc[t] = "poll"
    /\ LET f == [frame[t] EXCEPT !.elapsed = @ + wait_times[frame[t].k],
                                 !.poll_count = @ + 1]
       IN IF r = "raise"
          THEN /\ frame' = [frame EXCEPT ![t] = f]
               /\ pc' = [pc EXCEPT ![t] = "died_poll"]
          ELSE /\ frame' = [frame EXCEPT ![t] = [f EXCEPT !.status_json = r]]
               /\ pc' = [pc EXCEPT ![t] = "lock_poll"]
    /\ history' = [history EXCEPT
           ![frame[t].folder_name].queries = @ + 1,
           ![frame[t].folder_name].late_queries =
               IF history[frame[t].folder_name].ended_by = None THEN @ ELSE @ + 1]
    /\ UNCHANGED <<config, aux, folder_chunks, mainpc, lock, results_lock, results,
                   results_summary, results_json, chunk_idx, handled,
                   persisted>>

\* Lines 193-214, 222-223: the downloads and the composition, in a try block.
SaveResultsAt(t) ==
    IF pc[t] = "save" THEN SaveResults(input_json[frame[t].folder_name]) ELSE {}

Save(t, step) ==
    /\ pc[t] = "save"
    /\ step.outcome \in SaveOutcomes
    /\ LET folder == frame[t].folder_name IN
       /\ IF step.outcome = "saved"
          THEN /\ pc' = [pc EXCEPT ![t] = "lock_done"]
               /\ frame' = [frame EXCEPT ![t].downloads = step.downloads,
                                         ![t].composed = step.composed]
          ELSE /\ frame' = [frame EXCEPT
                      ![t].note = "Exception during save: error",
                      ![t].downloads = step.downloads,
                      ![t].composed = step.composed]
               /\ pc' = [pc EXCEPT ![t] = "lock_fail"]
       /\ history' = [history EXCEPT
              ![folder].saves = @ + 1,
              ![folder].save_raised = (step.outcome = "raise")]
    /\ UNCHANGED <<config, aux, folder_chunks, mainpc, lock, results_lock, results,
                   results_summary, results_json, chunk_idx, handled,
                   persisted>>

\* "with lock:" entered, and the body of the block run: lines 180-182
\* (lock_poll), 127-129, 152-154, 187-189, 224-226, 231-233, 238-240
\* (lock_fail), 215-217 (lock_done), 276-277 (lock_update).
LockEnter(t) ==
    /\ pc[t] \in {"lock_poll", "lock_fail", "lock_done", "lock_update"}
    /\ ProgressLockFree
    /\ lock' = t
    /\ results' = CASE pc[t] = "lock_fail" -> [results EXCEPT ![t].fail = @ + 1]
                    [] pc[t] = "lock_done" -> [results EXCEPT ![t].done = @ + 1]
                    [] OTHER -> results
    /\ pc' = [pc EXCEPT ![t] = CASE pc[t] = "lock_poll" -> "held_poll"
                                 [] pc[t] = "lock_fail" -> "held_fail"
                                 [] pc[t] = "lock_done" -> "held_done"
                                 [] pc[t] = "lock_update" -> "held_update"]
    /\ UNCHANGED <<config, aux, folder_chunks, mainpc, results_lock,
                   results_summary, results_json, chunk_idx, frame, handled,
                   history, persisted>>

TimeoutNote == "TIMEOUT waiting for tryon to complete"

\* A poll loop that gives up on a status it does not know.
AfterPollEndsOnUnrecognized(f) ==
    CASE f.status_json \in {"non200", "unrecognized"} ->
           <<[f EXCEPT !.note = "Status poll failed: 500",
                       !.status_json = None], "lock_fail">>
      [] f.status_json \in {"rejected", "rejected_done"} ->
           <<[f EXCEPT !.note = "API message: error",
                       !.status_json = None], "lock_fail">>
      [] f.status_json = "done" -> <<f, "save">>
      [] f.status_json = "malformed" ->
           <<[f EXCEPT !.status_json = None], "died_body">>
      [] OTHER ->
           IF f.k < Len(wait_times)
           THEN <<[f EXCEPT !.k = @ + 1, !.status_json = None], "poll">>
           ELSE <<[f EXCEPT !.note = TimeoutNote, !.status_json = None],
                  "lock_fail">>

\* A poll loop that repeats a status query that got a response other than 200.
AfterPollRetriesFailedQuery(f) ==
    CASE f.status_json = "non200" ->
           <<[f EXCEPT !.status_json = None], "poll">>
      [] f.status_json \in {"rejected", "rejected_done"} ->
           <<[f EXCEPT !.note = "API message: error",
                       !.status_json = None], "lock_fail">>
      [] f.status_json = "done" -> <<f, "save">>
      [] f.status_json = "malformed" ->
           <<[f EXCEPT !.status_json = None], "died_body">>
      [] OTHER ->
           IF f.k < Len(wait_times)
           THEN <<[f EXCEPT !.k = @ + 1, !.status_json = None], "poll">>
           ELSE <<[f EXCEPT !.note = TimeoutNote, !.status_json = None],
                  "lock_fail">>

\* Lines 183-192, 229-230, 236-237: the branch on the status response, giving
\* the locals and the next position.  A 200 response whose body is no JSON,
\* or has no 'message' or no 'status', raises where nothing catches it.
AfterPoll(f) ==
    CASE f.status_json = "non200" ->
           <<[f EXCEPT !.note = "Status poll failed: 500",
                       !.status_json = None], "lock_fail">>
      [] f.status_json \in {"rejected", "rejected_done"} ->
           <<[f EXCEPT !.note = "API message: error",
                       !.status_json = None], "lock_fail">>
      [] f.status_json = "done" -> <<f, "save">>
      [] f.status_json = "malformed" ->
           <<[f EXCEPT !.status_json = None], "died_body">>
      [] OTHER ->
           IF f.k < Len(wait_times)
           THEN <<[f EXCEPT !.k = @ + 1, !.status_json = None], "poll">>
           ELSE <<[f EXCEPT !.note = TimeoutNote, !.status_json = None],
                  "lock_fail">>

\* What ended the poll loop on the status response in f, None when the loop
\* goes on: the break of line 235, 191 or 228, or the else of line 236.
EndedBy(f) ==
    CASE f.status_json \in {"non200", "rejected", "rejected_done", "done"} ->
           f.status_json
      [] f.status_json = "malformed" -> None
      [] OTHER -> IF f.k < Len(wait_times) THEN None ELSE "exhausted"

\* The statements after a "with lock:" block of process_folder run inside it.
LockExitKeepsLock(t) ==
    /\ pc[t] \in {"held_poll", "held_fail", "held_done", "held_update"}
    /\ lock' = IF pc[t] = "held_update" THEN Free ELSE lock
    /\ CASE pc[t] = "held_poll" ->
              /\ frame' = [frame EXCEPT ![t] = AfterPoll(frame[t])[1]]
              /\ pc' = [pc EXCEPT ![t] = AfterPoll(frame[t])[2]]
              /\ history' = [history EXCEPT
                     ![frame[t].folder_name].exhausted =
                         AfterPoll(frame[t])[1].note = TimeoutNote,
                     ![frame[t].folder_name].ended_by = EndedBy(frame[t])]
              /\ UNCHANGED chunk_idx
         [] pc[t] = "held_fail" ->
              \* lines 130, 155, 190, 227, 234, 241
              /\ frame' = [frame EXCEPT ![t].status =
                     IF frame[t].note = TimeoutNote THEN "timeout" ELSE "fail"]
              /\ pc' = [pc EXCEPT ![t] = "append"]
              /\ UNCHANGED <<chunk_idx, history>>
         [] pc[t] = "held_done" ->
              \* lines 218-221
              /\ frame' = [frame EXCEPT ![t].status = "success",
                                        ![t].note = "",
                                        ![t].garment_id = "garment_id_srv",
                                        ![t].human_id = "human_id_srv",
                                        ![t].status_json = None]
              /\ pc' = [pc EXCEPT ![t] = "append"]
              /\ UNCHANGED <<chunk_idx, history>>
         [] pc[t] = "held_update" ->
              /\ chunk_idx' = [chunk_idx EXCEPT ![t] = @ + 1]
              /\ pc' = [pc EXCEPT ![t] = "worker"]
              /\ UNCHANGED <<frame, history>>
    /\ UNCHANGED <<config, aux, folder_chunks, mainpc, results_lock, results,
                   results_summary, results_json, handled, persisted>>

\* The end of a "with lock:" block and the statements after it up to the
\* next blocking point.
LockExit(t) ==
    /\ pc[t] \in {"held_poll", "held_fail", "held_done", "held_update"}
    /\ lock' = Free
    /\ CASE pc[t] = "held_poll" ->
              /\ frame' = [frame EXCEPT ![t] = AfterPoll(frame[t])[1]]
              /\ pc' = [pc EXCEPT ![t] = AfterPoll(frame[t])[2]]
              /\ history' = [history EXCEPT
                     ![frame[t].folder_name].exhausted =
                         AfterPoll(frame[t])[1].note = TimeoutNote,
                     ![frame[t].folder_name].ended_by = EndedBy(frame[t])]
              /\ UNCHANGED chunk_idx
         [] pc[t] = "held_fail" ->
              \* lines 130, 155, 190, 227, 234, 241
              /\ frame' = [frame EXCEPT ![t].status =
                     IF frame[t].note = TimeoutNote THEN "timeout" ELSE "fail"]
              /\ pc' = [pc EXCEPT ![t] = "append"]
              /\ UNCHANGED <<chunk_idx, history>>
         [] pc[t] = "held_done" ->
              \* lines 218-221
              /\ frame' = [frame EXCEPT ![t].status = "success",
                                        ![t].note = "",
                                        ![t].garment_id = "garment_id_srv",
                                        ![t].human_id = "human_id_srv",
                                        ![t].status_json = None]
              /\ pc' = [pc EXCEPT ![t] = "append"]
              /\ UNCHANGED <<chunk_idx, history>>
         [] pc[t] = "held_update" ->
              /\ chunk_idx' = [chunk_idx EXCEPT ![t] = @ + 1]
              /\ pc' = [pc EXCEPT ![t] = "worker"]
              /\ UNCHANGED <<frame, history>>
    /\ UNCHANGED <<config, aux, folder_chunks, mainpc, results_lock, results,
                   results_summary, results_json, handled, persisted>>

\* The record put at the head of the list.
AppendRecordAtHead(t) ==
    /\ pc[t] = "append"
    /\ ResultsLockFree
    /\ IF RecordRaisesKeyError(frame[t])
       THEN /\ pc' = [pc EXCEPT ![t] = "died_record"]
            /\ UNCHANGED <<results_lock, results_summary>>
       ELSE /\ results_lock' = t
            /\ results_summary' = [results_summary EXCEPT
                   !.requests = <<RecordOf(frame[t])>> \o @]
            /\ pc' = [pc EXCEPT ![t] = "open"]
    /\ UNCHANGED <<config, aux, folder_chunks, mainpc, lock, results, results_json,
                   chunk_idx, frame, handled, history, persisted>>

\* Lines 133-144, 157-168, 244-255: "with results_lock:" entered and the
\* record appended.  The record is built first: a KeyError in it leaves the
\* with block (releasing the lock) and process_folder, and ends the thread.
AppendRecord(t) ==
    /\ pc[t] = "append"
    /\ ResultsLockFree
    /\ IF RecordRaisesKeyError(frame[t])
       THEN /\ pc' = [pc EXCEPT ![t] = "died_record"]
            /\ UNCHANGED <<results_lock, results_summary>>
       ELSE /\ results_lock' = t
            /\ results_summary' = [results_summary EXCEPT
                   !.requests = Append(@, RecordOf(frame[t]))]
            /\ pc' = [pc EXCEPT ![t] = "open"]
    /\ UNCHANGED <<config, aux, folder_chunks, mainpc, lock, results, results_json,
                   chunk_idx, frame, handled, history, persisted>>

\* Lines 145, 169, 256: open(results_json_path, 'w').
OpenResults(t) ==
    /\ pc[t] = "open"
    /\ results_json' = Truncated
    /\ pc' = [pc EXCEPT ![t] = "dump"]
    /\ UNCHANGED <<config, aux, folder_chunks, mainpc, lock, results_lock, results,
                   results_summary, chunk_idx, frame, handled, history,
                   persisted>>

\* Lines 146-147, 170-171, 257: json.dump, the end of both with blocks and
\* the return of process_folder to worker.
DumpResults(t) ==
    /\ pc[t] = "dump"
    /\ results_json' = Written(results_summary)
    /\ results_lock' = Free
    /\ persisted' = persisted + 1
    /\ frame' = [frame EXCEPT ![t] = NoFrame]
    /\ pc' = [pc EXCEPT ![t] = "lock_update"]
    /\ UNCHANGED <<config, aux, folder_chunks, mainpc, lock, results,
                   results_summary, chunk_idx, handled, history>>

Next ==
    \/ MainSplit
    \/ MainSpawn
    \/ MainJoin
    \/ MainFlush
    \/ MainOpen
    \/ MainDump
    \/ \E t \in DOMAIN pc : worker(t)
    \/ \E t \in DOMAIN pc : \E r \in SubmitResponses : Submit(t, r)
    \/ \E t \in DOMAIN pc : \E r \in StatusResponses : Poll(t, r)
    \/ \E t \in DOMAIN pc : \E step \in SaveResultsAt(t) : Save(t, step)
    \/ \E t \in DOMAIN pc : LockEnter(t)
    \/ \E t \in DOMAIN pc : LockExit(t)
    \/ \E t \in DOMAIN pc : AppendRecord(t)
    \/ \E t \in DOMAIN pc : OpenResults(t)
    \/ \E t \in DOMAIN pc : DumpResults(t)

Spec == Init /\ [][Next]_vars

SpecItem == InitItem /\ [][Next]_vars

\* The single worker and main() are scheduled as long as they can take a
\* step: a thread that is not blocked runs on.
SpecItemFair == SpecItem /\ WF_vars(Next)

NextChunks == MainSplit

SpecChunks == InitChunks /\ [][NextChunks]_vars

NextFlush == MainFlush \/ MainOpen \/ MainDump

SpecFlush == InitFlush /\ [][NextFlush]_vars

\* Lines 71-80: the whole call of download_image.
download_image ==
    /\ download.state = "called"
    /\ download' = [download EXCEPT
           !.state = DownloadImage(download.response, download.file).state,
           !.file = DownloadImage(download.response, download.file).file,
           !.ret = DownloadImage(download.response, download.file).ret]
    /\ UNCHANGED <<config, images, scripts, runner>>

NextDownload == download_image

SpecDownload == InitDownload /\ [][NextDownload]_vars

\* Lines 83-92: the canvas built and the three images pasted into it.
stack_three_images_and_save ==
    /\ img1 /= NoImage
    /\ new_img = NoImage
    /\ new_img' = StackThree(img1, img2, img3)
    /\ UNCHANGED <<config, img1, img2, img3, download, scripts, runner>>

NextStack == stack_three_images_and_save

SpecStack == InitStack /\ [][NextStack]_vars

(* ------------- src/scripts: key rotation and generate_image ------------- *)

KeyLockFree == key_lock = Free

\* generate_and_upload_banners.py line 131: range(retries) has a next value.
MoreAttempts(attempt) == attempt < retries

\* The handler of line 155 catches nothing.
AttemptOutcomeUncaught(r) ==
    CASE r = "image" -> "return"
      [] r = "no_image" -> "next"
      [] r \in {"image_unsaved", "raise_429", "raise"} -> "raised"

\* Lines 132-164, what the body of the loop comes to on a response: the
\* return of line 150, the next attempt after the sleep of line 153 or of the
\* handler of lines 155-161, or an exception leaving generate_image.
AttemptOutcome(r) ==
    CASE r = "image" -> "return"
      [] r = "no_image" -> "next"
      [] r \in {"image_unsaved", "raise_429", "raise"} -> "next"

\* Line 131: the for statement, and lines 163-164 once the range is used up.
GenFor(g) ==
    /\ gen[g].pc = "for"
    /\ gen' = [gen EXCEPT ![g] =
           IF MoreAttempts(gen[g].attempt)
           THEN [@ EXCEPT !.pc = "get_next_client"]
           ELSE [@ EXCEPT !.pc = "returned", !.ret = "False"]]
    /\ UNCHANGED <<key_index, key_lock, key_log>>
    /\ UNCHANGED <<config, images, download, dalle, pipelines, runner>>

\* Lines 133 and 53: get_next_client is called and _key_lock acquired.
GetNextClientEnter(g) ==
    /\ gen[g].pc = "get_next_client"
    /\ KeyLockFree
    /\ key_lock' = g
    /\ gen' = [gen EXCEPT ![g].pc = "line54"]
    /\ UNCHANGED <<key_index, key_log>>
    /\ UNCHANGED <<config, images, download, dalle, pipelines, runner>>

\* Line 54: key = API_KEYS[_key_index % len(API_KEYS)].
GetNextClientRead(g) ==
    /\ gen[g].pc = "line54"
    /\ gen' = [gen EXCEPT ![g].pc = "line55", ![g].key = KeyAt(key_index)]
    /\ key_log' = Append(key_log, [index |-> key_index,
                                   key |-> KeyAt(key_index)])
    /\ UNCHANGED <<key_index, key_lock>>
    /\ UNCHANGED <<config, images, download, dalle, pipelines, runner>>

\* Lines 55-56: _key_index += 1, the lock released, the client returned.
GetNextClientIncrement(g) ==
    /\ gen[g].pc = "line55"
    /\ key_index' = key_index + 1
    /\ key_lock' = Free
    /\ gen' = [gen EXCEPT ![g].pc = "generate_content",
                          ![g].calls = @ + 1]
    /\ UNCHANGED key_log
    /\ UNCHANGED <<config, images, download, dalle, pipelines, runner>>

\* Lines 134-161: generate_content, the search for an image part, and the
\* rest of the iteration.
GenerateContent(g, r) ==
    /\ gen[g].pc = "generate_content"
    /\ gen' = [gen EXCEPT ![g] =
           [@ EXCEPT
              !.pc = CASE AttemptOutcome(r) = "return" -> "returned"
                       [] AttemptOutcome(r) = "next" -> "for"
                       [] OTHER -> "raised",
              !.ret = IF AttemptOutcome(r) = "return" THEN "True" ELSE @,
              !.attempt = IF AttemptOutcome(r) = "next" THEN @ + 1 ELSE @,
              !.image_parts = IF r \in {"image", "image_unsaved"}
                              THEN @ + 1 ELSE @,
              !.last = r]]
    /\ UNCHANGED <<key_index, key_lock, key_log>>
    /\ UNCHANGED <<config, images, download, dalle, pipelines, runner>>

\* Every thread of the executor is given one generate_image call.
InitGemini ==
    /\ key_index = 0
    /\ key_lock = Free
    /\ key_log = <<>>
    /\ gen = [g \in GenThreads |-> NewGen]
    /\ InitNoDalle
    /\ InitNoPipelines
    /\ InitNoImages
    /\ InitNoDownload
    /\ InitNoRun

GenStep(g) ==
    \/ GenFor(g)
    \/ GetNextClientEnter(g)
    \/ GetNextClientRead(g)
    \/ GetNextClientIncrement(g)
    \/ \E r \in GenResponses : GenerateContent(g, r)

NextGemini == \E g \in GenThreads : GenStep(g)

SpecGemini == InitGemini /\ [][NextGemini]_vars

\* Every thread of the executor goes on running.
SpecGeminiFair == SpecGemini /\ \A g \in GenThreads : WF_vars(GenStep(g))

(* --------------------- src/scripts: dalle_runner.py --------------------- *)

\* gen_one returns (fname, path) to line 92 of main.
DalleReturn(path) ==
    [dalle EXCEPT !.pc = "after",
                  !.returned = @ \cup {dalle.i},
                  !.path[dalle.i] = path]

\* Line 91: the for statement of main, over the batch.
DalleFor ==
    /\ dalle.pc = "for"
    /\ dalle' = IF dalle.i < dalle.n
                THEN [dalle EXCEPT !.pc = "gen_one", !.i = @ + 1]
                ELSE [dalle EXCEPT !.pc = "done"]
    /\ UNCHANGED <<config, images, download, rotation, pipelines, runner>>

\* Lines 27-33: gen_one is entered, and left at once for a file already there.
DalleSkipCheck ==
    /\ dalle.pc = "gen_one"
    /\ dalle' = IF dalle.file[dalle.i] = "big"
                THEN DalleReturn("out_path")
                ELSE [dalle EXCEPT !.pc = "post"]
    /\ UNCHANGED <<config, images, download, rotation, pipelines, runner>>

\* Lines 35-41, and lines 59-61 for what is no HTTPError: the generation call.
DallePost(r) ==
    /\ dalle.pc = "post"
    /\ dalle' =
          [(CASE r.raised -> DalleReturn(None)
              [] ~r.raised /\ RaisesForStatus(r) ->
                    [dalle EXCEPT !.pc = "except_http", !.response = r]
              [] ~r.raised /\ ~RaisesForStatus(r) /\ r.body /= "url" ->
                    DalleReturn(None)
              [] OTHER -> [dalle EXCEPT !.pc = "get"])
           EXCEPT !.posts[dalle.i] = Append(@, r.status_code)]
    /\ UNCHANGED <<config, images, download, rotation, pipelines, runner>>

\* Lines 42-47, and lines 59-61: the image fetched and written to out_path.
DalleGet(r) ==
    /\ dalle.pc = "get"
    /\ dalle' =
          CASE r.raised -> DalleReturn(None)
            [] ~r.raised /\ RaisesForStatus(r) ->
                  [dalle EXCEPT !.pc = "except_http", !.response = r]
            [] OTHER ->
                  [DalleReturn("out_path") EXCEPT !.file[dalle.i] = r.body]
    /\ UNCHANGED <<config, images, download, rotation, pipelines, runner>>

\* Lines 48-58: the handler of HTTPError, its wait and its call of gen_one.
DalleHTTPError ==
    /\ dalle.pc = "except_http"
    /\ dalle' = IF IsRateLimited(CodeOf(dalle.response))
                THEN [dalle EXCEPT !.pc = "gen_one", !.slept = @ + 60]
                ELSE DalleReturn(None)
    /\ UNCHANGED <<config, images, download, rotation, pipelines, runner>>

\* Lines 92-94: the path kept if there is one, and the pause between items.
DalleAfter ==
    /\ dalle.pc = "after"
    /\ dalle' = [dalle EXCEPT
           !.pc = "for",
           !.generated = IF dalle.path[dalle.i] /= None
                         THEN @ \cup {dalle.i} ELSE @,
           !.slept = @ + 13]
    /\ UNCHANGED <<config, images, download, rotation, pipelines, runner>>

\* main with a batch of every length and every state of the output files.
InitDalle ==
    /\ \E n \in 1 .. MaxBatch : \E file \in [1 .. n -> OutFiles] :
          dalle = [pc |-> "for", n |-> n, i |-> 0, file |-> file,
                   response |-> NoResponse,
                   posts |-> [k \in 1 .. n |-> <<>>], slept |-> 0,
                   returned |-> {}, path |-> [k \in 1 .. n |-> None],
                   generated |-> {}]
    /\ InitNoRotation
    /\ InitNoPipelines
    /\ InitNoImages
    /\ InitNoDownload
    /\ InitNoRun

NextDalle ==
    \/ DalleFor
    \/ DalleSkipCheck
    \/ \E r \in PostResponses : DallePost(r)
    \/ \E r \in GetResponses : DalleGet(r)
    \/ DalleHTTPError
    \/ DalleAfter

SpecDalle == InitDalle /\ [][NextDalle]_vars

(* ---------------- src/scripts: generate_level4_banners.py ---------------- *)

\* The other scripts and the runner are left alone.
Level4Only == UNCHANGED <<config, images, download, key_lock, key_log, gen,
                          dalle, rerun, promo, single, runner>>

\* Every future of the phase has been yielded by as_completed.
AllYielded == \A t \in DOMAIN level4.futures : level4.futures[t] = "yielded"

\* Lines 411-412 and 438-439: an idle pool thread takes the next submitted
\* call.
Level4Take(w) ==
    /\ level4.phase \in {"generate", "upload"}
    /\ level4.worker[w].pc = "idle"
    /\ level4.queue /= <<>>
    /\ level4' = [level4 EXCEPT
           !.queue = Tail(@),
           !.worker[w] = [IdleWorker EXCEPT
               !.pc = IF level4.phase = "generate"
                      THEN "exists" ELSE "upload_to_cloudinary",
               !.task = Head(level4.queue)]]
    /\ UNCHANGED key_index
    /\ Level4Only

\* Lines 398-400: generate_task tests save_path.exists().
Level4Exists(w) ==
    /\ level4.worker[w].pc = "exists"
    /\ level4' = [level4 EXCEPT !.worker[w] =
           IF level4.exists[level4.worker[w].task]
           THEN [@ EXCEPT !.pc = "load", !.result = "True"]
           ELSE [@ EXCEPT !.pc = "generate_image"]]
    /\ UNCHANGED key_index
    /\ Level4Only

\* Line 404: generate_image, followed step by step in SpecGemini; here the
\* call as a whole, which took n keys and saved the image or did not.
Level4GenerateImage(w, n, ok) ==
    /\ level4.worker[w].pc = "generate_image"
    /\ ~ok => n = retries
    /\ key_index' = key_index + n
    /\ level4' = [level4 EXCEPT
           !.exists[level4.worker[w].task] = ok,
           !.worker[w] = [@ EXCEPT !.pc = "load",
                             !.result = IF ok THEN "True" ELSE "False"]]
    /\ Level4Only

\* Lines 401, 405 and 431, first half of "count += 1": the counter is read.
Level4Load(w) ==
    /\ level4.worker[w].pc = "load"
    /\ level4' = [level4 EXCEPT !.worker[w] =
           [@ EXCEPT !.pc = "store",
                     !.loaded = IF level4.phase = "generate"
                                THEN level4.completed_count
                                ELSE level4.upload_count]]
    /\ UNCHANGED key_index
    /\ Level4Only

\* Second half of "count += 1": the value read plus one is stored; then the
\* return of lines 403, 408, 435 or 436 completes the future.
Level4Store(w) ==
    /\ level4.worker[w].pc = "store"
    /\ level4' = [level4 EXCEPT
           !.completed_count = IF level4.phase = "generate"
                               THEN level4.worker[w].loaded + 1 ELSE @,
           !.upload_count = IF level4.phase = "upload"
                            THEN level4.worker[w].loaded + 1 ELSE @,
           !.futures[level4.worker[w].task] = level4.worker[w].result,
           !.worker[w] = IdleWorker]
    /\ UNCHANGED key_index
    /\ Level4Only

\* Line 430: upload_to_cloudinary returns its dictionary or None.
Level4Upload(w, r) ==
    /\ level4.worker[w].pc = "upload_to_cloudinary"
    /\ level4' = [level4 EXCEPT !.worker[w] =
           [@ EXCEPT !.pc = "load", !.result = r]]
    /\ UNCHANGED key_index
    /\ Level4Only

\* Lines 413-416 and 440-444: as_completed yields a finished future and main
\* keeps its result if there is one.
Level4Collect(t) ==
    /\ level4.phase \in {"generate", "upload"}
    /\ level4.futures[t] \in {"True", "False", "result"}
    /\ level4' = [level4 EXCEPT
           !.futures[t] = "yielded",
           !.generated = IF level4.futures[t] = "True"
                         THEN Append(@, t) ELSE @,
           !.results = IF level4.futures[t] = "result"
                       THEN Append(@, t) ELSE @]
    /\ UNCHANGED key_index
    /\ Level4Only

\* Lines 418-439: the generation executor is left, upload_count set to 0 and
\* an upload submitted for every generated item.
Level4StartUpload ==
    /\ level4.phase = "generate"
    /\ AllYielded
    /\ level4' = [level4 EXCEPT
           !.phase = "upload",
           !.upload_count = 0,
           !.queue = level4.generated,
           !.futures = [t \in DOMAIN level4.futures |->
                           IF \E k \in DOMAIN level4.generated :
                                 level4.generated[k] = t
                           THEN "pending" ELSE "yielded"]]
    /\ UNCHANGED key_index
    /\ Level4Only

\* Lines 446-449: the upload executor is left and the results are saved.
Level4Save ==
    /\ level4.phase = "upload"
    /\ AllYielded
    /\ level4' = [level4 EXCEPT !.phase = "done"]
    /\ UNCHANGED key_index
    /\ Level4Only

\* main from line 393 on, with every set of output files already there.
InitLevel4 ==
    /\ \E exists \in [1 .. Level4Tasks -> BOOLEAN] :
          level4 = [NoLevel4 EXCEPT
                       !.phase = "generate",
                       !.exists = exists,
                       !.queue = [t \in 1 .. Level4Tasks |-> t],
                       !.futures = [t \in 1 .. Level4Tasks |-> "pending"]]
    /\ InitNoRotation
    /\ InitNoDalle
    /\ InitNoRerun /\ InitNoPromo /\ InitNoSingle
    /\ InitNoImages
    /\ InitNoDownload
    /\ InitNoRun

NextLevel4 ==
    \/ \E w \in Workers : Level4Take(w)
    \/ \E w \in Workers : Level4Exists(w)
    \/ \E w \in Workers : \E n \in 1 .. retries : \E ok \in BOOLEAN :
          Level4GenerateImage(w, n, ok)
    \/ \E w \in Workers : Level4Load(w)
    \/ \E w \in Workers : Level4Store(w)
    \/ \E w \in Workers : \E r \in {"result", "None"} : Level4Upload(w, r)
    \/ \E t \in DOMAIN level4.futures : Level4Collect(t)
    \/ Level4StartUpload
    \/ Level4Save

SpecLevel4 == InitLevel4 /\ [][NextLevel4]_vars

(* ------------- src/scripts: the generation phase, run twice ------------- *)

RerunOnly == UNCHANGED <<config, images, download, key_lock, key_log, gen,
                         dalle, level4, promo, single, runner>>

\* The task in hand is skipped: it makes no call and counts as generated
\* (generate_and_upload_banners.py lines 250-252, generate_promo_banners.py
\* lines 317-319 and 348, gemini_runner.py lines 59-61).
RerunSkip ==
    /\ rerun.pc = "task"
    /\ Skips(rerun.script, rerun.file[rerun.i])
    /\ rerun' = [rerun EXCEPT
           !.pc = "next",
           !.generated[rerun.run] = @ \cup {rerun.i}]
    /\ UNCHANGED key_index
    /\ RerunOnly

\* The task in hand is generated: generate_image (or the loop of gen_one)
\* takes n keys, and writes the file or gives up after retries attempts.
RerunGenerate(n, saved) ==
    /\ rerun.pc = "task"
    /\ ~Skips(rerun.script, rerun.file[rerun.i])
    /\ saved = "none" => n = retries
    /\ key_index' = key_index + n
    /\ rerun' = [rerun EXCEPT
           !.pc = "next",
           !.calls[rerun.run] = @ + n,
           !.called_on_existing =
               @ \/ rerun.file[rerun.i].size /= "absent",
           !.file[rerun.i] =
               IF saved = "none" THEN @
               ELSE [size |-> saved, version |-> @.version + 1],
           !.generated[rerun.run] =
               IF saved = "none" THEN @ ELSE @ \cup {rerun.i}]
    /\ RerunOnly

\* The next task of the phase, or the phase started again once, or the end.
RerunNext ==
    /\ rerun.pc = "next"
    /\ rerun' =
          IF rerun.i < Len(rerun.file)
          THEN [rerun EXCEPT !.pc = "task", !.i = @ + 1]
          ELSE IF rerun.run = 1
          THEN [rerun EXCEPT !.pc = "task", !.i = 1, !.run = 2,
                             !.after_first = rerun.file]
          ELSE [rerun EXCEPT !.pc = "done"]
    /\ UNCHANGED key_index
    /\ RerunOnly

\* Each script, with every state of the output files before the first run.
InitRerun ==
    /\ \E s \in Scripts :
       \E sizes \in [1 .. RerunTasks -> {"absent", "small", "big"}] :
          rerun = [NoRerun EXCEPT
                      !.pc = "task", !.script = s, !.run = 1, !.i = 1,
                      !.file = [t \in 1 .. RerunTasks |-> OutFile(sizes[t])],
                      !.after_first =
                          [t \in 1 .. RerunTasks |-> OutFile(sizes[t])]]
    /\ InitNoRotation
    /\ InitNoDalle
    /\ InitNoLevel4 /\ InitNoPromo /\ InitNoSingle
    /\ InitNoImages
    /\ InitNoDownload
    /\ InitNoRun

NextRerun ==
    \/ RerunSkip
    \/ \E n \in 1 .. retries : \E saved \in {"none", "small", "big"} :
          RerunGenerate(n, saved)
    \/ RerunNext

SpecRerun == InitRerun /\ [][NextRerun]_vars

(* ---------- src/scripts: generate_promo_banners.py, upload phase --------- *)

PromoOnly == UNCHANGED <<config, images, download, rotation, dalle, level4,
                         rerun, single, runner>>

\* Lines 341-360: results emptied, the upload tasks built and submitted.
PromoBuild ==
    /\ promo.pc = "build"
    /\ promo' = [promo EXCEPT
           !.pc = IF UploadTasks(promo.exists, 1) = <<>>
                  THEN "save" ELSE "upload",
           !.results = <<>>,
           !.queue = UploadTasks(promo.exists, 1),
           !.futures = [t \in Themes |->
                           IF promo.exists[t] THEN "pending" ELSE "none"]]
    /\ PromoOnly

\* Lines 356-360: an idle pool thread takes the next submitted upload.
PromoTake(w) ==
    /\ promo.pc = "upload"
    /\ promo.worker[w].pc = "idle"
    /\ promo.queue /= <<>>
    /\ promo' = [promo EXCEPT
           !.queue = Tail(@),
           !.worker[w] = [IdleWorker EXCEPT !.pc = "upload_to_cloudinary",
                                            !.task = Head(promo.queue)]]
    /\ PromoOnly

\* Lines 278-298: upload_to_cloudinary runs and returns; the future is done.
PromoUpload(w, outcome) ==
    /\ promo.worker[w].pc = "upload_to_cloudinary"
    /\ promo' = [promo EXCEPT
           !.futures[promo.worker[w].task] = UploadResult(outcome),
           !.returned = IF UploadResult(outcome) /= None
                        THEN @ \cup {promo.worker[w].task} ELSE @,
           !.worker[w] = IdleWorker]
    /\ PromoOnly

\* Lines 361-380: as_completed yields a finished future; main appends an
\* entry for a result.
PromoCollect(t) ==
    /\ promo.pc = "upload"
    /\ promo.futures[t] \in {"result", None}
    /\ promo' = [promo EXCEPT
           !.futures[t] = "yielded",
           !.results = IF Truthy(promo.futures[t])
                       THEN Append(@, t) ELSE @]
    /\ PromoOnly

\* The upload executor is left once every future has been yielded.
PromoEndUpload ==
    /\ promo.pc = "upload"
    /\ \A t \in Themes : promo.futures[t] \in {"none", "yielded"}
    /\ promo' = [promo EXCEPT !.pc = "save"]
    /\ PromoOnly

\* Lines 382-385 (regenerate_promo_banners.py lines 492-499): the results,
\* sorted in regenerate_promo_banners, are written to RESULTS_FILE.
PromoSave ==
    /\ promo.pc = "save"
    /\ promo' = [promo EXCEPT
           !.pc = "done",
           !.results = IF promo.script = "regenerate_promo_banners"
                       THEN SortByOrder(@) ELSE @,
           !.saved = IF promo.script = "regenerate_promo_banners"
                     THEN SortByOrder(promo.results) ELSE promo.results]
    /\ PromoOnly

\* Either script, with every set of local files at upload time.
InitPromo ==
    /\ \E s \in PromoScripts : \E exists \in [Themes -> BOOLEAN] :
          promo = [NoPromo EXCEPT
                      !.pc = "build", !.script = s, !.exists = exists,
                      !.futures = [t \in Themes |-> "none"]]
    /\ InitNoRotation
    /\ InitNoDalle
    /\ InitNoLevel4 /\ InitNoRerun /\ InitNoSingle
    /\ InitNoImages
    /\ InitNoDownload
    /\ InitNoRun

NextPromo ==
    \/ PromoBuild
    \/ \E w \in Workers : PromoTake(w)
    \/ \E w \in Workers : \E outcome \in UploadOutcomes :
          PromoUpload(w, outcome)
    \/ \E t \in Themes : PromoCollect(t)
    \/ PromoEndUpload
    \/ PromoSave

SpecPromo == InitPromo /\ [][NextPromo]_vars

(* ----------------------- alphabake-api-single.py ------------------------ *)

SingleOnly == UNCHANGED <<config, images, download, rotation, dalle, level4,
                          rerun, promo, runner>>

\* Lines 48-59 and 88-90: the job is created; the polling is prepared on a
\* 200 with a tryon_id, and the script ends on anything else.
SingleCreate(r, latency) ==
    /\ single.pc = "create"
    /\ single' = [single EXCEPT
           !.created = r,
           !.now = latency,
           !.time_elapsed = IF r = "ok" THEN latency ELSE @,
           !.pc = CASE r = "ok" -> "while"
                    [] r = "non200" -> "done"
                    [] OTHER -> "died"]
    /\ SingleOnly

\* Line 60: while not found.
SingleWhile ==
    /\ single.pc = "while"
    /\ single' = [single EXCEPT
           !.pc = IF single.found THEN "done" ELSE "query"]
    /\ SingleOnly

\* Lines 61-87: one pass of the loop, on status response r and, for a job
\* that is done, on response d to the download of the result.
SingleQuery(r, d) ==
    /\ single.pc = "query"
    /\ r /= "done" => d = Ok200
    /\ single' =
          [(CASE r \in {"raise", "malformed"} ->
                   [single EXCEPT !.pc = "died"]
              [] r \in {"non200", "rejected", "rejected_done"} ->
                   [single EXCEPT !.pc = "while", !.found = TRUE,
                                  !.events = @ + 1]
              [] r = "done" ->
                   IF DownloadImage(d, single.file).state = "raised"
                   THEN [single EXCEPT !.pc = "died", !.downloads = @ + 1]
                   ELSE [single EXCEPT
                            !.pc = "while", !.found = TRUE,
                            !.events = @ + 1, !.downloads = @ + 1,
                            !.file = DownloadImage(d, single.file).file]
              [] OTHER ->
                   [single EXCEPT
                       !.pc = "while",
                       !.now = @ + PollSleep,
                       !.time_elapsed = single.now + PollSleep,
                       !.found = single.now + PollSleep > PollLimit,
                       !.events = IF single.now + PollSleep > PollLimit
                                  THEN @ + 1 ELSE @])
           EXCEPT !.queries = @ + 1, !.last = r]
    /\ SingleOnly

\* The script from line 48 on, outputs/tryon.png removed by lines 34-35.
InitSingle ==
    /\ single = [NoSingle EXCEPT !.pc = "create"]
    /\ InitNoRotation
    /\ InitNoDalle
    /\ InitNoLevel4 /\ InitNoRerun /\ InitNoPromo
    /\ InitNoImages
    /\ InitNoDownload
    /\ InitNoRun

NextSingle ==
    \/ \E r \in SubmitResponses : \E latency \in CreateLatencies :
          SingleCreate(r, latency)
    \/ SingleWhile
    \/ \E r \in StatusResponses : \E d \in SaveResponses : SingleQuery(r, d)

SpecSingle == InitSingle /\ [][NextSingle]_vars

(* ------------------------------ properties ------------------------------- *)

Requests == results_summary.requests

\* The indices of the records of folder f in the manifest.
RecordsOf(f) == {i \in DOMAIN Requests : Requests[i].folder = f}

\* main() is past the joins of lines 284-285.
Joined == mainpc \in {"flush", "open", "dump", "done"}

\* The call of process_folder on f has ended: it returned, or an exception
\* left it.
Left(f) ==
    /\ handled[f] /= {}
    /\ \A t \in DOMAIN pc : frame[t].folder_name = f => pc[t] \in Died

IsPrefix(s, t) == Len(s) <= Len(t) /\ \A i \in DOMAIN s : s[i] = t[i]

\* C1: once main() has joined all workers, the manifest holds exactly one
\* record for every folder of the work list.
C1_ExactlyOneRecordPerFolder ==
    Joined => \A j \in DOMAIN folders : Cardinality(RecordsOf(folders[j])) = 1

\* C2: the records in memory are as many as the completed append-and-write
\* sections (one more while a worker is inside its section), and whenever
\* results_lock is free after a completed section the file holds exactly the
\* records in memory.
C2_AppendAndPersistAtomic ==
    /\ results_lock \in DOMAIN pc => Len(Requests) = persisted + 1
    /\ results_lock \notin DOMAIN pc => Len(Requests) = persisted
    /\ (results_lock = Free /\ persisted > 0) =>
          /\ results_json.state = "written"
          /\ results_json.requests = Requests
          /\ Len(results_json.requests) = persisted

\* Two workers have each completed an append-and-write section.
C2_Witness ==
    /\ results_lock = Free
    /\ persisted >= 2
    /\ \E i, j \in DOMAIN Requests :
          handled[Requests[i].folder] /= handled[Requests[j].folder]

\* C3: once the manifest file has held records, its content is at every
\* instant a complete serialization of a prefix of the records appended so
\* far.
C3_ManifestAlwaysCompletePrefix ==
    persisted > 0 =>
        /\ results_json.state = "written"
        /\ IsPrefix(results_json.requests, Requests)

\* C4: the sizes of any two chunks folders[i::K] differ by at most 1.
C4_ChunkSizesDifferByAtMostOne ==
    mainpc = "spawn" =>
        \A i, j \in DOMAIN folder_chunks :
            Len(folder_chunks[i]) - Len(folder_chunks[j]) <= 1

\* A list that K does not divide has been split among several threads.
C4_Witness ==
    /\ mainpc = "spawn"
    /\ n_threads >= 2
    /\ Len(folders) > n_threads
    /\ \E i, j \in DOMAIN folder_chunks :
          Len(folder_chunks[i]) = Len(folder_chunks[j]) + 1

\* The positions at which chunk i holds the folder x.
PlacesIn(i, x) == {p \in DOMAIN folder_chunks[i] : folder_chunks[i][p] = x}

C6_ExhaustedScheduleGivesTimeoutRecord ==
    \A f \in DOMAIN history :
        (history[f].exhausted /\ Left(f)) =>
            \E i \in RecordsOf(f) :
                /\ Requests[i].status = "timeout"
                /\ Requests[i].duration = SumSeq(wait_times)

SubmitFailureNotes == {"ERROR resp 403", "Exception: error"}

\* C7: a folder whose job creation failed is never polled (no status query,
\* no sleep of the schedule), its thread is not ended by it, and once its
\* process_folder call has ended the manifest holds exactly one record for
\* it, with status 'fail' and the note of the failure.
C7_SubmitFailureIsRecordedUnpolled ==
    \A f \in DOMAIN history :
        history[f].submit_failed =>
            /\ history[f].queries = 0
            /\ \A t \in DOMAIN pc :
                  frame[t].folder_name = f =>
                      /\ pc[t] \notin Died
                      /\ frame[t].poll_count = 0
                      /\ frame[t].elapsed = 0
            /\ Cardinality(RecordsOf(f)) <= 1
            /\ Left(f) => Cardinality(RecordsOf(f)) = 1
            /\ \A i \in RecordsOf(f) :
                  /\ Requests[i].status = "fail"
                  /\ Requests[i].note \in SubmitFailureNotes
                  /\ Requests[i].duration = 0

\* The job creation of a folder given by identifiers failed, and its call
\* has returned with its record written.
C7_Witness ==
    \E f \in DOMAIN history :
        /\ history[f].submit_failed
        /\ input_json[f].has_human_id
        /\ Left(f)
        /\ Cardinality(RecordsOf(f)) = 1
        /\ results_json.state = "written"
        /\ results_json.requests = Requests

\* C8: no failure leaves process_folder as an exception: no worker thread is
\* ever ended by one.
C8_NoFailureEndsAThread ==
    \A t \in DOMAIN pc : pc[t] \notin Died

\* C9: in a run all of whose network calls returned, main() ends only after
\* every folder of every chunk has been taken up by its worker, and the
\* final manifest, with the average, is in the file.
C9_EveryFolderIsProcessed ==
    (mainpc = "done" /\ \A t \in DOMAIN pc : pc[t] /= "died_poll") =>
        /\ \A j \in DOMAIN folders : handled[folders[j]] /= {}
        /\ \A t \in DOMAIN pc : chunk_idx[t] = Len(folder_chunks[t])
        /\ results_json = Written(results_summary)

\* C10: a status query has been sent only with a job identifier that the
\* submit call returned, and the save step is entered only on a response
\* with message 'success' and status 'done'.
C10_SubmitThenPollThenSave ==
    \A t \in DOMAIN pc :
        /\ frame[t].poll_count > 0 => frame[t].tryon_id /= None
        /\ pc[t] \in {"save", "lock_done", "held_done"} =>
               frame[t].status_json = "done"

\* The horizontal offset of the k-th image on the canvas.
OffsetOf(k) == CASE k = 1 -> 0
                 [] k = 2 -> img1.width
                 [] k = 3 -> img1.width + img2.width

ImageOf(k) == CASE k = 1 -> img1 [] k = 2 -> img2 [] k = 3 -> img3

\* The columns of the canvas that the k-th image is pasted on.
ColumnsOf(k) == OffsetOf(k) .. (OffsetOf(k) + ImageOf(k).width - 1)

\* C11: the canvas is as high as the highest image and as wide as the three
\* together; the pixel (x, y) of the k-th image is at (offset_k + x, y) of
\* the canvas, offset_k being the width of the images before it; and no two
\* images are pasted on a common column.
C11_StackedSideBySideTopAligned ==
    new_img /= NoImage =>
        /\ new_img.height = Max3(img1.height, img2.height, img3.height)
        /\ new_img.width = img1.width + img2.width + img3.width
        /\ \A k \in 1 .. 3 :
              \A p \in Pixels(ImageOf(k).width, ImageOf(k).height) :
                  /\ <<OffsetOf(k) + p[1], p[2]>> \in DOMAIN new_img.px
                  /\ new_img.px[<<OffsetOf(k) + p[1], p[2]>>] = ImageOf(k).px[p]
        /\ \A k, l \in 1 .. 3 : k /= l => ColumnsOf(k) \cap ColumnsOf(l) = {}

\* Three images of three different heights and widths have been stacked,
\* the widest in the middle.
C11_Witness ==
    /\ new_img /= NoImage
    /\ img1.height = 2 /\ img2.height = 3 /\ img3.height = 1
    /\ img1.width = 2 /\ img2.width = 3 /\ img3.width = 1
    /\ new_img.px[<<5, 0>>] = <<3, 0, 0>>
    /\ new_img.px[<<5, 2>>] = Black

PollFailedNote == "Status poll failed: 500"

\* C12: a folder one of whose status queries got a response other than 200
\* is sent no status query after it, and once its process_folder call has
\* ended the manifest holds a record for it with status 'fail' and the note
\* of the HTTP status code.
C12_FailedStatusQueryIsRecordedAndEndsPolling ==
    \A f \in DOMAIN history :
        history[f].ended_by = "non200" =>
            /\ history[f].late_queries = 0
            /\ Left(f) => \E i \in RecordsOf(f) :
                              /\ Requests[i].status = "fail"
                              /\ Requests[i].note = PollFailedNote

RejectedNote == "API message: error"

\* C13: a folder one of whose status queries got a 200 response with a
\* message other than 'success', whatever the status in it, attempts no
\* download, is sent no status query after it, and once its process_folder
\* call has ended the manifest holds a record for it with status 'fail' and
\* the note of the message.
C13_RejectedJobIsRecordedUnsaved ==
    \A f \in DOMAIN history :
        history[f].ended_by \in {"rejected", "rejected_done"} =>
            /\ history[f].saves = 0
            /\ history[f].late_queries = 0
            /\ Left(f) => \E i \in RecordsOf(f) :
                              /\ Requests[i].status = "fail"
                              /\ Requests[i].note = RejectedNote

SaveFailedNote == "Exception during save: error"

\* C14: a folder one of whose status queries got message 'success' and
\* status 'done' is sent no status query after it and runs the save step
\* once; once its process_folder call has ended the manifest holds a record
\* for it, with status 'success' and the identifiers of the server if the
\* save step raised nothing, with status 'fail' and the note of the save
\* failure if it raised.
C14_DoneIsSavedAndRecorded ==
    \A f \in DOMAIN history :
        history[f].ended_by = "done" =>
            /\ history[f].late_queries = 0
            /\ history[f].saves <= 1
            /\ Left(f) =>
                  /\ history[f].saves = 1
                  /\ \E i \in RecordsOf(f) :
                        IF history[f].save_raised
                        THEN /\ Requests[i].status = "fail"
                             /\ Requests[i].note = SaveFailedNote
                        ELSE /\ Requests[i].status = "success"
                             /\ Requests[i].garment_id = "garment_id_srv"
                             /\ Requests[i].human_id = "human_id_srv"

\* The worker t leaves the lock block of lines 180-182 with a 200 response
\* of message 'success' and a status other than 'done' in hand.
LeavesNonTerminal(t) ==
    /\ pc[t] = "held_poll"
    /\ frame[t].status_json \in NonTerminal
    /\ pc'[t] /= "held_poll"

\* C15: a 200 response with message 'success' and a status other than
\* 'done' leaves the outcome of the item open and, unless it answered the
\* last entry of the schedule, is followed by the sleep of the next entry;
\* the item is timed out only with every entry of the schedule slept and
\* queried.
C15_NonTerminalStatusGoesOnToNextPoll ==
    /\ [][\A t \in DOMAIN pc :
             LeavesNonTerminal(t) =>
                 IF frame[t].k < Len(wait_times)
                 THEN /\ pc'[t] = "poll"
                      /\ frame'[t].k = frame[t].k + 1
                      /\ frame'[t].status = frame[t].status
                      /\ frame'[t].note = frame[t].note
                      /\ history'[frame[t].folder_name].ended_by = None
                 ELSE /\ pc'[t] = "lock_fail"
                      /\ frame'[t].note = TimeoutNote
                      /\ history'[frame[t].folder_name].ended_by = "exhausted"]_vars
    /\ [](\A t \in DOMAIN pc :
             (frame[t].status = "timeout" \/ frame[t].note = TimeoutNote) =>
                 /\ frame[t].poll_count = Len(wait_times)
                 /\ frame[t].elapsed = SumSeq(wait_times)
                 /\ history[frame[t].folder_name].queries = Len(wait_times)
                 /\ history[frame[t].folder_name].ended_by = "exhausted")
    /\ [](\A i \in DOMAIN Requests :
             Requests[i].status = "timeout" =>
                 /\ Requests[i].duration = SumSeq(wait_times)
                 /\ history[Requests[i].folder].queries = Len(wait_times))

\* An item has been timed out after nine status queries and its record is
\* in the manifest.
C15_Witness ==
    \E i \in DOMAIN Requests :
        /\ Requests[i].status = "timeout"
        /\ Requests[i].duration = 180
        /\ history[Requests[i].folder].queries = 9
        /\ history[Requests[i].folder].ended_by = "exhausted"

TerminalStatuses == {"success", "fail", "timeout"}

\* The call of process_folder on f has ended with one terminal outcome: one
\* record, of status success, fail or timeout.
HasOutcome(f) ==
    /\ Left(f)
    /\ Cardinality(RecordsOf(f)) = 1
    /\ \A i \in RecordsOf(f) : Requests[i].status \in TerminalStatuses

\* C16: an item is submitted once and then queried at most once per entry of
\* the schedule, each query after the sleep of its entry, taken in order;
\* and unless a network call raises, an item that was taken up ends with one
\* terminal outcome.
C16_ItemTerminatesWithOneOutcome ==
    /\ [](\A f \in DOMAIN history :
             /\ history[f].submits <= 1
             /\ history[f].queries <= Len(wait_times)
             /\ history[f].queries > 0 =>
                   (history[f].submits = 1 /\ ~ history[f].submit_failed))
    /\ [](\A t \in DOMAIN pc :
             frame[t].folder_name /= 0 =>
                 /\ history[frame[t].folder_name].queries = frame[t].poll_count
                 /\ frame[t].elapsed =
                        SumSeq(SubSeq(wait_times, 1, frame[t].poll_count)))
    /\ \/ <>(\E t \in DOMAIN pc : pc[t] = "died_poll")
       \/ \A f \in 1 .. ItemFolders : (handled[f] /= {}) ~> HasOutcome(f)

\* C17: no folder is sent a second job creation request, failed or not, and
\* none is taken up twice; a folder whose call has ended was sent exactly
\* one; and a status query that got a response other than 200 is the last
\* one of its folder.
C17_NoRetry ==
    \A f \in DOMAIN history :
        /\ history[f].submits <= 1
        /\ Cardinality(handled[f]) <= 1
        /\ Left(f) => history[f].submits = 1
        /\ history[f].submit_failed => history[f].queries = 0
        /\ history[f].ended_by = "non200" =>
              /\ history[f].late_queries = 0
              /\ \A t \in DOMAIN pc :
                    frame[t].folder_name = f =>
                        pc[t] \notin {"submit", "poll", "lock_poll", "held_poll"}

\* The second status query of a folder got a response other than 200, and
\* its call has returned with the failure on record.
C17_Witness ==
    \E f \in DOMAIN history :
        /\ history[f].ended_by = "non200"
        /\ history[f].submits = 1
        /\ history[f].queries = 2
        /\ Left(f)
        /\ \E i \in RecordsOf(f) : Requests[i].note = PollFailedNote

\* C18: every step leaves the records already in results_summary where they
\* are and as they are, adding at most one at the end; average_duration is
\* changed by the final flush of main() only, which changes no record.
C18_ManifestIsAppendOnly ==
    [][/\ IsPrefix(Requests, Requests')
       /\ Len(Requests') <= Len(Requests) + 1
       /\ results_summary'.average_duration /= results_summary.average_duration =>
              /\ mainpc = "flush"
              /\ Requests' = Requests]_vars

\* Both workers have appended records, main() has set the average of the
\* successes, and the records are as they were appended.
C18_Witness ==
    /\ mainpc = "done"
    /\ Len(Requests) = 3
    /\ results_summary.average_duration /= NoAverage
    /\ Requests[1].folder = 2
    /\ Requests[2].status = "success"
    /\ Requests[3].status = "fail"

HeldPositions == {"held_poll", "held_fail", "held_done", "held_update"}

\* C19: no thread holds the progress lock and results_lock together; the
\* holder of either lock is inside the block of that lock, which it leaves
\* without taking another lock; so as long as main() has not ended, some
\* thread can take a step.
C19_LocksNeverNested ==
    /\ \A t \in DOMAIN pc : ~ (lock = t /\ results_lock = t)
    /\ lock /= MainThread
    /\ lock /= Free => (lock \in DOMAIN pc /\ pc[lock] \in HeldPositions)
    /\ results_lock \in DOMAIN pc => pc[results_lock] \in {"open", "dump"}
    /\ results_lock = MainThread => mainpc \in {"open", "dump"}
    /\ \A t \in DOMAIN pc :
          /\ pc[t] \in HeldPositions => lock = t
          /\ pc[t] \in {"open", "dump"} => results_lock = t
    /\ mainpc /= "done" => ENABLED Next

\* One worker holds the progress lock while the other holds results_lock,
\* and a third party, main(), waits for both to end.
C19_Witness ==
    /\ mainpc = "join"
    /\ lock \in DOMAIN pc
    /\ results_lock \in DOMAIN pc
    /\ lock /= results_lock
    /\ pc[results_lock] = "dump"
    /\ pc[lock] = "held_fail"

\* The worker t is in a network call (job creation, the downloads of the
\* save step) or in the sleep and the status query of a schedule entry.
Blocked(t) == pc[t] \in {"submit", "poll", "save"}

\* C20: a worker that sleeps or is in a network call holds neither the
\* progress lock nor results_lock, so the lock that any other thread waits
\* for is free or held by a thread that is inside the block of that lock.
C20_NoLockHeldWhileBlocked ==
    /\ \A t \in DOMAIN pc :
          Blocked(t) => (lock /= t /\ results_lock /= t)
    /\ \A u \in DOMAIN pc :
          /\ (pc[u] \in {"lock_poll", "lock_fail", "lock_done", "lock_update"}
                  /\ lock /= Free) =>
                 (lock \in DOMAIN pc /\ ~ Blocked(lock) /\ ENABLED LockExit(lock))
          /\ (pc[u] = "append" /\ results_lock /= Free) =>
                 (results_lock \in DOMAIN pc /\ ~ Blocked(results_lock)
                    /\ ENABLED (OpenResults(results_lock) \/ DumpResults(results_lock)))

\* While one worker sleeps before a status query, the other has taken the
\* progress lock and gone on to write its record.
C20_Witness ==
    \E t, u \in DOMAIN pc :
        /\ t /= u
        /\ pc[t] = "poll"
        /\ frame[t].folder_name /= 0
        /\ pc[u] = "dump"
        /\ results_lock = u

\* Some worker thread has not yet ended.
WorkerRunning == \E t \in DOMAIN pc : pc[t] \notin {"ended"} \cup Died

\* C21: as long as main() has not joined every worker, average_duration is
\* None in results_summary and in the file; it is assigned by the step of
\* main() that follows the last join, when no worker is running, and no
\* step changes it afterwards.
C21_AverageSetOnceAfterJoin ==
    /\ []((WorkerRunning \/ ~ Joined) =>
             /\ results_summary.average_duration = NoAverage
             /\ results_json.average_duration = NoAverage)
    /\ [][(mainpc = "flush" /\ mainpc' /= "flush") =>
             /\ ~ WorkerRunning
             /\ results_summary'.average_duration = AverageDuration(Requests)]_vars
    /\ [][results_summary'.average_duration /= results_summary.average_duration =>
             mainpc = "flush"]_vars
    /\ [][(mainpc /= "flush" /\ Joined) =>
             /\ results_summary' = results_summary
             /\ mainpc' /= "flush"]_vars

\* A worker has written a success to the file, without an average, while
\* the other worker is still polling.
C21_Witness ==
    /\ mainpc = "join"
    /\ results_json.state = "written"
    /\ \E i \in DOMAIN results_json.requests :
          results_json.requests[i].status = "success"
    /\ results_json.average_duration = NoAverage
    /\ \E t \in DOMAIN pc : pc[t] = "poll"

\* The indices of the records with status 'success'.
Successes == {i \in DOMAIN Requests : Requests[i].status = "success"}

RECURSIVE DurationsOver(_)
DurationsOver(S) ==
    IF S = {} THEN 0
    ELSE LET i == CHOOSE x \in S : TRUE
         IN Requests[i].duration + DurationsOver(S \ {i})

\* C22: after the final flush average_duration is None when no record has
\* status 'success', and otherwise the sum of the durations of the records
\* with status 'success' over their number; the file that main() writes
\* holds the same value.
C22_AverageIsOverSuccessesOnly ==
    /\ mainpc \in {"open", "dump", "done"} =>
          results_summary.average_duration =
              IF Successes = {} THEN NoAverage
              ELSE [num |-> DurationsOver(Successes), den |-> Cardinality(Successes)]
    /\ mainpc = "done" =>
          results_json.average_duration = results_summary.average_duration

\* The manifest holds two successes of different durations, a failure and a
\* timeout of other durations, and the average of the two is in the file.
C22_Witness ==
    /\ mainpc = "done"
    /\ Len(Requests) = 3
    /\ Requests[1].status = "success" /\ Requests[1].duration = 10
    /\ Requests[2].status = "timeout" /\ Requests[2].duration = 180
    /\ Requests[3].status = "success" /\ Requests[3].duration = 25
    /\ results_json.average_duration = [num |-> 35, den |-> 2]

\* The folder f has been submitted and its call of process_folder has not
\* ended: its job is in flight.
InFlight(f) == history[f].submits > 0 /\ ~ Left(f)

\* C23: the folder a worker is on is the one at its position in its chunk;
\* every folder before it in the chunk has been left with one record, and
\* no folder after it has been submitted; so each chunk has at most one
\* folder in flight and there are at most n_threads in all.
C23_ChunkIsProcessedInOrder ==
    mainpc /= "split" =>
        /\ \A t \in DOMAIN pc :
              /\ frame[t].folder_name /= 0 =>
                    /\ chunk_idx[t] < Len(folder_chunks[t])
                    /\ frame[t].folder_name = folder_chunks[t][chunk_idx[t] + 1]
              /\ \A p \in DOMAIN folder_chunks[t] :
                    /\ p <= chunk_idx[t] =>
                          /\ Left(folder_chunks[t][p])
                          /\ Cardinality(RecordsOf(folder_chunks[t][p])) = 1
                    /\ p > chunk_idx[t] + 1 =>
                          /\ handled[folder_chunks[t][p]] = {}
                          /\ history[folder_chunks[t][p]].submits = 0
              /\ Cardinality({p \in DOMAIN folder_chunks[t] :
                                 InFlight(folder_chunks[t][p])}) <= 1
        /\ Cardinality({f \in DOMAIN history : InFlight(f)}) <= n_threads

\* Thread 0 polls the second folder of its chunk, the first one on record,
\* while thread 1 polls its own: as many jobs in flight as threads.
C23_Witness ==
    /\ mainpc = "join"
    /\ chunk_idx[0] = 1
    /\ pc[0] = "poll"
    /\ pc[1] = "poll"
    /\ frame[0].folder_name = 3
    /\ Cardinality(RecordsOf(1)) = 1
    /\ Cardinality({f \in DOMAIN history : InFlight(f)}) = 2

\* The number of records whose status is in S.
CountStatus(S) == Cardinality({i \in DOMAIN Requests : Requests[i].status \in S})

\* The counters of all threads, as lists.
DoneCounts == [i \in 1 .. n_threads |-> results[i - 1].done]
FailCounts == [i \in 1 .. n_threads |-> results[i - 1].fail]

\* C24: a step that changes the counters of thread t is a step of t that
\* holds the progress lock and adds one to one of its two counters; and once
\* main() has joined the workers, done + fail of every thread is the size
\* of its chunk, the done counters add up to the number of 'success'
\* records and the fail counters to the number of 'fail' and 'timeout'
\* records.
C24_CountersMatchChunksAndRecords ==
    /\ [][\A t \in DOMAIN results :
             results'[t] /= results[t] =>
                 /\ lock' = t
                 /\ pc[t] \in {"lock_fail", "lock_done"}
                 /\ results'[t].done + results'[t].fail =
                        results[t].done + results[t].fail + 1
                 /\ \A u \in DOMAIN results : u /= t => results'[u] = results[u]]_vars
    /\ [](Joined =>
             /\ \A t \in DOMAIN results :
                   results[t].done + results[t].fail = Len(folder_chunks[t])
             /\ SumSeq(DoneCounts) = CountStatus({"success"})
             /\ SumSeq(FailCounts) = CountStatus({"fail", "timeout"}))

\* C25: a call of download_image always returns; on a 200 response the file
\* at download_path holds the whole body and the call returns True; on any
\* other response and on a fault of the transport it returns None and the
\* file is as it was.
C25_DownloadNeverRaises ==
    /\ download.state /= "raised"
    /\ download.state = "returned" =>
          IF download.response.kind = "response"
                /\ download.response.status_code = 200
          THEN /\ download.ret = "True"
               /\ download.file = FileOf(download.response.content)
          ELSE /\ download.ret = None
               /\ download.file = download.before

\* C26: the record a worker has just appended has status 'success' only if
\* every download of its save step got a 200 response; and when one of them
\* did not, the composition was still attempted and the record has status
\* 'fail'.
C26_SuccessOnlyWithFreshDownloads ==
    \A t \in DOMAIN pc :
        (results_lock = t /\ frame[t].downloads /= None) =>
            LET rec == Requests[Len(Requests)] IN
            /\ rec.folder = frame[t].folder_name
            /\ rec.status = "success" => frame[t].downloads = "ok"
            /\ frame[t].downloads = "failed" =>
                  (rec.status = "fail" /\ frame[t].composed)

RecordFields == {"folder", "status", "duration", "note", "tryon_id",
                 "garment_url", "human_url", "garment_id", "human_id"}

\* C27: every record has the nine fields, its garment_url and human_url
\* being the URL of the payload for an input given by URL and the empty
\* string for an input given by identifier; and building the record raises
\* for no entry.
C27_RecordHasNineFieldsOnEveryPath ==
    /\ \A i \in DOMAIN Requests :
          /\ DOMAIN Requests[i] = RecordFields
          /\ Requests[i].garment_url =
                 IF input_json[Requests[i].folder].has_garment_id
                 THEN "" ELSE "garment_url?v"
          /\ Requests[i].human_url =
                 IF input_json[Requests[i].folder].has_human_id
                 THEN "" ELSE "human_url?v"
    /\ \A t \in DOMAIN pc : pc[t] /= "died_record"

\* The keys of API_KEYS.
AllKeys == {API_KEYS[n] : n \in DOMAIN API_KEYS}

\* C28: the key rotation is a round-robin that concurrent callers cannot
\* break: no two calls of get_next_client read the same value of the
\* counter, the k-th call (counting from 0, in the order the lock is taken)
\* uses API_KEYS[k mod len(API_KEYS)], and any len(API_KEYS) consecutive
\* calls use every key exactly once.
C28_KeyRotationIsRoundRobin ==
    /\ \A i, j \in DOMAIN key_log :
          i /= j => key_log[i].index /= key_log[j].index
    /\ \A k \in DOMAIN key_log :
          /\ key_log[k].index = k - 1
          /\ key_log[k].key = API_KEYS[((k - 1) % Len(API_KEYS)) + 1]
    /\ \A k \in DOMAIN key_log :
          k + Len(API_KEYS) - 1 <= Len(key_log) =>
             /\ {key_log[j].key : j \in k .. k + Len(API_KEYS) - 1} = AllKeys
             /\ \A i, j \in k .. k + Len(API_KEYS) - 1 :
                   i /= j => key_log[i].key /= key_log[j].key

\* Two threads have called get_next_client in turn, more often than there
\* are keys.
C28_Witness ==
    /\ Len(key_log) > Len(API_KEYS)
    /\ \A g \in GenThreads : gen[g].calls >= 2
    /\ \E g \in GenThreads : gen[g].pc = "line55"

\* The generation calls of item k that were answered with HTTP 429.
RateLimited(k) == {n \in DOMAIN dalle.posts[k] : dalle.posts[k][n] = 429}

\* C29: in dalle_runner.gen_one an HTTP 429 of the generation call is
\* answered by a wait of 60 seconds and another call of gen_one for the same
\* item, so no item is given up on a 429; any other HTTP error or exception
\* ends the item with (fname, None) after its single attempt.
C29_RateLimitIsWaitedOutAndRetried ==
    \A k \in dalle.returned :
       /\ \A n \in RateLimited(k) : n < Len(dalle.posts[k])
       /\ RateLimited(k) = {} => Len(dalle.posts[k]) <= 1
       /\ dalle.pc = "done" =>
             dalle.slept = 13 * dalle.n
                + 60 * SumSeq([j \in 1 .. dalle.n |-> Cardinality(RateLimited(j))])

\* Thread g's generate_image call has returned.
Returned(g) == gen[g].pc = "returned"

\* C30, as stated: generate_image makes at most retries attempts, each one
\* taking the next key of the rotation; it returns True at the first attempt
\* whose response contains an image part and makes no further attempt, it
\* returns False after retries attempts without an image, and no exception
\* leaves it.
C30_ReturnsTrueAtFirstImagePart ==
    \A g \in GenThreads :
       /\ gen[g].attempt <= retries
       /\ gen[g].calls <= retries
       /\ gen[g].pc /= "raised"
       /\ gen[g].image_parts >= 1 =>
             Returned(g) /\ gen[g].ret = "True" /\ gen[g].image_parts = 1
       /\ gen[g].ret = "False" =>
             gen[g].attempt = retries /\ gen[g].image_parts = 0

\* What generate_image keeps to at every step.
GenerateImageSafe(g) ==
    /\ gen[g].attempt <= retries
    /\ gen[g].calls <= retries
    /\ gen[g].pc /= "raised"
    /\ gen[g].pc \in {"generate_content", "returned"} /\ gen[g].ret /= "False"
          => gen[g].calls = gen[g].attempt + 1
    /\ gen[g].pc \in {"for", "get_next_client", "line54", "line55"}
          \/ gen[g].ret = "False"
          => gen[g].calls = gen[g].attempt
    /\ gen[g].last = "image" <=> gen[g].ret = "True"
    /\ gen[g].ret = "True" => Returned(g)
    /\ gen[g].ret = "False" =>
          Returned(g) /\ gen[g].attempt = retries /\ gen[g].last /= "image"

\* C30, amended: generate_image makes at most retries attempts, each one
\* taking one key of the rotation; it returns True at the first attempt
\* whose image part is decoded and saved, making no further attempt; an
\* attempt whose image part cannot be decoded or saved is a failed attempt
\* like one without an image; it returns False after retries failed
\* attempts; no exception leaves it, and it always returns.
C30_GenerateImageIsBoundedAndTotal ==
    /\ [](\A g \in GenThreads : GenerateImageSafe(g))
    /\ \A g \in GenThreads : <>Returned(g)

\* One call has returned True after an attempt whose image part was not
\* saved, the other False after all its attempts.
C30_Witness ==
    /\ \E g \in GenThreads :
          /\ gen[g].ret = "True"
          /\ gen[g].image_parts = 2
          /\ gen[g].calls = 2
    /\ \E g \in GenThreads :
          /\ gen[g].ret = "False"
          /\ gen[g].calls = retries

\* C31: in generate_level4_banners no increment of the progress counters
\* is lost: once the generation phase has ended completed_count equals the
\* number of tasks, and once the upload workers have ended upload_count
\* equals the number of generated items.
C31_NoCounterIncrementIsLost ==
    /\ level4.phase \in {"upload", "done"} =>
          level4.completed_count = Len(level4.futures)
    /\ level4.phase = "done" =>
          level4.upload_count = Len(level4.generated)

\* The second run has ended without a generation call and with every file
\* as the first run left it.
SecondRunIsIdle ==
    /\ rerun.calls[2] = 0
    /\ rerun.file = rerun.after_first
    /\ rerun.generated[2] = DOMAIN rerun.file

\* C32, as stated: a task whose output file already exists makes no
\* generation call and is treated as generated, so the generation phase run
\* again after a run that left every image file in place makes no
\* generation call and leaves every file unchanged.
C32_ExistingOutputIsNeverGenerated ==
    /\ ~rerun.called_on_existing
    /\ (/\ rerun.pc = "done"
        /\ \A t \in DOMAIN rerun.after_first :
              rerun.after_first[t].size /= "absent")
          => SecondRunIsIdle

\* C32, amended: a task whose output file already exists (in gemini_runner:
\* exists and holds more than 10000 bytes) makes no generation call and is
\* treated as generated, so the generation phase run again after a run that
\* left every such file in place makes no generation call and leaves every
\* file unchanged; in gemini_runner a file of at most 10000 bytes is
\* generated again.
C32_SkippedOutputIsNotGenerated ==
    /\ rerun.called_on_existing => rerun.script = "gemini_runner"
    /\ (/\ rerun.pc = "done"
        /\ \A t \in DOMAIN rerun.after_first :
              Skips(rerun.script, rerun.after_first[t]))
          => SecondRunIsIdle
    /\ (/\ rerun.pc = "done"
        /\ \E t \in DOMAIN rerun.after_first :
              ~Skips(rerun.script, rerun.after_first[t]))
          => rerun.calls[2] > 0

\* A second run of gemini_runner has ended idle after a first run that
\* wrote every file.
C32_Witness ==
    /\ rerun.pc = "done"
    /\ rerun.script = "gemini_runner"
    /\ \A t \in DOMAIN rerun.file :
          /\ rerun.after_first[t].version = 1
          /\ rerun.after_first[t].size = "big"
    /\ rerun.calls[1] > 0
    /\ SecondRunIsIdle

\* The themes with an entry in the list s.
EntriesOf(s) == {s[k] : k \in DOMAIN s}

\* No theme has two entries in the list s.
NoTwice(s) == \A i, j \in DOMAIN s : i /= j => s[i] /= s[j]

\* C33: in the promo banner scripts the saved results list holds exactly
\* one entry for each theme whose local file exists at upload time and
\* whose upload returned a result, and none for any other theme; no theme
\* appears twice and the list is never longer than PROMO_THEMES, whatever
\* the order in which the uploads complete.
C33_OneEntryPerUploadedTheme ==
    /\ EntriesOf(promo.results) \subseteq
          {t \in promo.returned : promo.exists[t]}
    /\ NoTwice(promo.results)
    /\ Len(promo.results) <= PromoThemes
    /\ promo.pc = "done" =>
          /\ EntriesOf(promo.saved) =
                {t \in Themes : promo.exists[t] /\ t \in promo.returned}
          /\ NoTwice(promo.saved)
          /\ Len(promo.saved) <= PromoThemes

\* The list was saved with two entries whose uploads completed out of
\* order, a third theme having no file or a failed upload.
C33_Witness ==
    /\ promo.pc = "done"
    /\ Len(promo.saved) = 2
    /\ promo.saved[1] > promo.saved[2]
    /\ \E t \in Themes :
          /\ t \notin EntriesOf(promo.saved)
          /\ ~promo.exists[t] \/ promo.futures[t] = "yielded"

\* C34: the polling loop of the single-item runner always ends, and only
\* at the first pass in which the status query returns non-200, the
\* response has a message other than 'success', the response has status
\* 'done', or the time measured after a non-terminal poll exceeds 120
\* seconds; the result is downloaded only for 'done', and no status query
\* is sent unless job creation returned HTTP 200.
C34_PollingEndsAtFirstTerminalEvent ==
    /\ single.pc /= "died" \/ single.queries = 0
    /\ single.queries > 0 => single.created = "ok"
    /\ single.downloads > 0 =>
          single.last = "done" /\ single.downloads = 1
    /\ single.found <=> single.events = 1
    /\ ~single.found => single.events = 0
    /\ single.found =>
          \/ single.last \in {"non200", "rejected", "rejected_done", "done"}
          \/ single.last \in NonTerminal /\ single.time_elapsed > PollLimit
    /\ (single.queries - 1) * PollSleep <= PollLimit

====
